---- MODULE Spec2Model ----
(***************************************************************************)
(* Verification model of the miro terminal emulator core: the terminal     *)
(* state engine (src/src/term/terminalstate.rs), the Terminal front        *)
(* (src/src/term/terminal.rs), the action parser                           *)
(* (src/src/core/escape/parser/mod.rs), the mux wire codec                 *)
(* (src/src/server/codec.rs), and the mux with its pty readers, executor   *)
(* tasks and trickled pastes (src/src/mux/mod.rs, src/src/mux/tab.rs,      *)
(* src/src/frontend/muxserver/mod.rs).                                     *)
(*                                                                         *)
(* Conventions.  Rust Option<T> is a sequence of length 0 (None) or 1      *)
(* (Some(v)).  Rust indices are 0-based; a TLA+ sequence holding a Rust    *)
(* vector is indexed by the Rust index plus one.  A Rust Range a..b is the *)
(* record [start |-> a, end |-> b].  A record constructor lists its fields *)
(* in the order TLC keeps them (each name's first occurrence in this       *)
(* module), so that no record value is reordered after it has been built.  *)
(***************************************************************************)
EXTENDS Integers, Sequences, FiniteSets

VARIABLES
    state,      \* the TerminalState owned by the Terminal
    parser,     \* the Parser (VTParser state machine) owned by the Terminal
    performer,  \* the Performer of the advance_bytes call in progress, if any
    host,       \* the TerminalHost: bytes written to the pty, title, clipboard
    result,     \* what the most recent call returned to its caller
    last,       \* the operation performed by the most recent step
    steps,      \* number of operations performed so far
    ref,        \* streaming comparison: the terminal fed the same bytes in one call
    fed,        \* the actions performed and resizes made since construction, where recorded
    wire,       \* the mux connection: bytes in flight and the reader's buffer
    mux         \* the Mux: its tabs, their pty readers, and the executor's queue of tasks

vars == <<state, parser, performer, host, result, last, steps, ref, fed, wire, mux>>

----------------------------------------------------------------------------
(* Bounds of the exploration *)

MaxSteps == 2
MaxSelSteps == 4
MaxEraseSteps == 5
MaxScrollSteps == 5
MaxPrintSteps == 5
MaxPenSteps == 5
MaxBytes == 4
MaxReplies == 2

(* u16::max_value() *)
U16_MAX == 65535

(* usize::max_value(), standing for "beyond every column" *)
USIZE_MAX == 1000000

None == <<>>
Some(v) == <<v>>
IsSome(o) == Len(o) = 1
Unwrap(o) == o[1]

Min(a, b) == IF a < b THEN a ELSE b
Max(a, b) == IF a > b THEN a ELSE b

Range(a, b) == [start |-> a, end |-> b]
RangeContains(r, v) == r.start <= v /\ v < r.end

(* Terminal dimensions and scrollback capacities used at construction *)
RowChoices == {2, 3}
ColChoices == {2, 3}

----------------------------------------------------------------------------
(* Characters.  "a", "b" are single-width letters, "W" is a double-width   *)
(* character, "'" is a zero-width combining mark (U+0301).                 *)

Letters == {"a", "b"}
WideChar == "W"
Combining == "'"

CharWidth(c) == IF c = WideChar THEN 2 ELSE IF c = Combining THEN 0 ELSE 1

RECURSIVE SumWidth(_)
SumWidth(g) == IF g = <<>> THEN 0 ELSE CharWidth(Head(g)) + SumWidth(Tail(g))

(* unicode_width of a grapheme cluster *)
unicode_column_width(g) == SumWidth(g)

(* unicode_segmentation::graphemes(p, true): a combining mark extends the  *)
(* cluster before it; at the start of the string it is a cluster of its    *)
(* own.                                                                     *)
RECURSIVE graphemes(_)
graphemes(p) ==
    IF p = <<>> THEN <<>>
    ELSE LET n == Len(p)
             lastc == p[n]
             front == graphemes(SubSeq(p, 1, n - 1))
         IN  IF lastc = Combining /\ front /= <<>>
                THEN [front EXCEPT ![Len(front)] = Append(@, lastc)]
                ELSE Append(front, <<lastc>>)

----------------------------------------------------------------------------
(* Cells and attributes *)

DefaultAttributes ==
    [foreground |-> "Default", intensity |-> "Normal",
     hyperlink |-> None, wrapped |-> FALSE]

clone_sgr_only(attrs) == [attrs EXCEPT !.hyperlink = None]

CellNew(c, attrs) == [attrs |-> attrs, text |-> <<c>>]
new_grapheme(g, attrs) == [attrs |-> attrs, text |-> g]
DefaultCell == CellNew(" ", DefaultAttributes)
CellWidth(cell) == Max(1, unicode_column_width(cell.text))

----------------------------------------------------------------------------
(* Lines *)

LineWithWidth(cols) == [cells |-> [i \in 1 .. cols |-> DefaultCell], dirty |-> TRUE]

PadCells(cells, n) ==
    IF Len(cells) >= n THEN cells
    ELSE cells \o [i \in 1 .. (n - Len(cells)) |-> DefaultCell]

line_set_dirty(line) == [line EXCEPT !.dirty = TRUE]
line_clear_dirty(line) == [line EXCEPT !.dirty = FALSE]

line_has_hyperlink(line) == \E i \in 1 .. Len(line.cells) : IsSome(line.cells[i].attrs.hyperlink)

(* Line::set_cell: store the cell at column idx, padding the line when it  *)
(* is too short; the columns a wide cell overlaps are blanked.             *)
line_set_cell(line, idx, cell) ==
    LET w == CellWidth(cell)
        padded == PadCells(line.cells, idx + w)
    IN  [cells |-> [i \in 1 .. Len(padded) |->
                      IF i = idx + 1 THEN cell
                      ELSE IF i > idx + 1 /\ i <= idx + w
                              THEN CellNew(" ", cell.attrs)
                              ELSE padded[i]],
         dirty |-> TRUE]

(* Line::insert_cell: shift the cells at columns >= x right by one; the    *)
(* cell pushed past the end of the line is dropped.                        *)
line_insert_cell(line, x, cell) ==
    LET n == Len(line.cells)
    IN  IF x >= n THEN line_set_dirty(line)
        ELSE [cells |-> [i \in 1 .. n |->
                           IF i < x + 1 THEN line.cells[i]
                           ELSE IF i = x + 1 THEN cell
                           ELSE line.cells[i - 1]],
              dirty |-> TRUE]

(* Line::erase_cell: remove the cell at column x, append a blank *)
line_erase_cell(line, x) ==
    LET n == Len(line.cells)
    IN  IF x >= n THEN line_set_dirty(line)
        ELSE [cells |-> [i \in 1 .. n |->
                           IF i < x + 1 THEN line.cells[i]
                           ELSE IF i < n THEN line.cells[i + 1]
                           ELSE DefaultCell],
              dirty |-> TRUE]

(* Line::fill_range: overwrite the columns of the range that exist *)
line_fill_range(line, cols, cell) ==
    [cells |-> [i \in 1 .. Len(line.cells) |->
                  IF RangeContains(cols, i - 1) THEN cell ELSE line.cells[i]],
     dirty |-> TRUE]

line_resize(line, cols) ==
    [cells |-> [i \in 1 .. cols |->
                  IF i <= Len(line.cells) THEN line.cells[i] ELSE DefaultCell],
     dirty |-> TRUE]

(* Line::columns_as_str followed by trim_end: the text of the columns of   *)
(* the range, without trailing blanks.                                     *)
RECURSIVE TrimEnd(_)
TrimEnd(s) ==
    IF s = <<>> THEN s
    ELSE IF s[Len(s)] = " " THEN TrimEnd(SubSeq(s, 1, Len(s) - 1)) ELSE s

RECURSIVE ConcatText(_, _, _)
ConcatText(cells, from, to) ==
    IF from > to THEN <<>>
    ELSE cells[from].text \o ConcatText(cells, from + 1, to)

columns_as_str(line, cols) ==
    ConcatText(line.cells, cols.start + 1, Min(cols.end, Len(line.cells)))

----------------------------------------------------------------------------
(* Screen: scrollback followed by the visible rows *)

ScreenNew(physical_rows, physical_cols, scrollback_size) ==
    [physical_rows |-> physical_rows,
     physical_cols |-> physical_cols,
     scrollback_size |-> scrollback_size,
     lines |-> [i \in 1 .. physical_rows |-> LineWithWidth(physical_cols)]]

(* index into lines (0-based) of a visible row *)
phys_row(s, row) == (Len(s.lines) - s.physical_rows) + row

(* index into lines (0-based) of a row that may lie in the scrollback *)
scrollback_or_visible_row(s, row) == Max(0, (Len(s.lines) - s.physical_rows) + row)

RowExists(s, idx) == idx >= 0 /\ idx < Len(s.lines)

UpdateLine(s, idx, line) == [s EXCEPT !.lines[idx + 1] = line]

dirty_line(s, row) ==
    LET idx == phys_row(s, row)
    IN  IF RowExists(s, idx) THEN UpdateLine(s, idx, line_set_dirty(s.lines[idx + 1])) ELSE s

screen_set_cell(s, x, y, cell) ==
    LET idx == phys_row(s, y)
    IN  UpdateLine(s, idx, line_set_cell(s.lines[idx + 1], x, cell))

screen_insert_cell(s, x, y) ==
    LET idx == phys_row(s, y)
    IN  UpdateLine(s, idx, line_insert_cell(s.lines[idx + 1], x, DefaultCell))

screen_erase_cell(s, x, y) ==
    LET idx == phys_row(s, y)
    IN  UpdateLine(s, idx, line_erase_cell(s.lines[idx + 1], x))

clear_line(s, y, cols, attrs) ==
    LET idx == phys_row(s, y)
    IN  UpdateLine(s, idx, line_fill_range(s.lines[idx + 1], cols, CellNew(" ", attrs)))

DropOldest(lines, keep) ==
    IF Len(lines) > keep THEN SubSeq(lines, Len(lines) - keep + 1, Len(lines)) ELSE lines

BlankLines(n, cols) == [i \in 1 .. n |-> LineWithWidth(cols)]

DirtyAll(lines) == [i \in 1 .. Len(lines) |-> line_set_dirty(lines[i])]

(* Screen::scroll_up.  Scrolling the whole screen keeps the lines scrolled *)
(* off the top as scrollback, up to scrollback_size of them, dropping the  *)
(* oldest.  Scrolling a sub-range of the rows discards them.               *)
screen_scroll_up(s, region, num_rows) ==
    LET n == Min(num_rows, region.end - region.start)
        base == Len(s.lines) - s.physical_rows
        top == base + region.start
        bot == base + region.end
    IN  IF n <= 0 THEN s
        ELSE IF region.start = 0 /\ region.end = s.physical_rows
        THEN LET grown == SubSeq(s.lines, 1, base)
                          \o DirtyAll(SubSeq(s.lines, base + 1, Len(s.lines)))
                          \o BlankLines(n, s.physical_cols)
             IN  [s EXCEPT !.lines = DropOldest(grown, s.physical_rows + s.scrollback_size)]
        ELSE [s EXCEPT !.lines =
                SubSeq(s.lines, 1, top)
                \o DirtyAll(SubSeq(s.lines, top + n + 1, bot))
                \o BlankLines(n, s.physical_cols)
                \o SubSeq(s.lines, bot + 1, Len(s.lines))]

(* Screen::scroll_down: the rows of the region move down, blank rows enter *)
(* at the top of the region, rows pushed past its end are discarded.       *)
screen_scroll_down(s, region, num_rows) ==
    LET n == Min(num_rows, region.end - region.start)
        base == Len(s.lines) - s.physical_rows
        top == base + region.start
        bot == base + region.end
    IN  IF n <= 0 THEN s
        ELSE [s EXCEPT !.lines =
                SubSeq(s.lines, 1, top)
                \o BlankLines(n, s.physical_cols)
                \o DirtyAll(SubSeq(s.lines, top + 1, bot - n))
                \o SubSeq(s.lines, bot + 1, Len(s.lines))]

(* Screen::resize: new rows are added at the bottom when the screen grows; *)
(* the scrollback stays capped; every line takes the new width.            *)
screen_resize(s, physical_rows, physical_cols) ==
    LET grown == IF physical_rows > Len(s.lines)
                    THEN s.lines \o BlankLines(physical_rows - Len(s.lines), physical_cols)
                    ELSE s.lines
        capped == DropOldest(grown, physical_rows + s.scrollback_size)
    IN  [s EXCEPT !.lines = [i \in 1 .. Len(capped) |-> line_resize(capped[i], physical_cols)],
                  !.physical_rows = physical_rows,
                  !.physical_cols = physical_cols]

----------------------------------------------------------------------------
(* Selection ranges *)

SelectionCoordinate(x, y) == [x |-> x, y |-> y]
SelectionRange(start, end) == [start |-> start, end |-> end]
selection_start_at(start) == SelectionRange(start, start)
selection_extend(sel, end) == SelectionRange(sel.start, end)

normalize(sel) ==
    IF sel.start.y <= sel.end.y THEN sel ELSE SelectionRange(sel.end, sel.start)

selection_rows(sel) == Range(sel.start.y, sel.end.y + 1)

saturating_add1(x) == IF x >= USIZE_MAX THEN USIZE_MAX ELSE x + 1

cols_for_row(sel, row) ==
    IF row < sel.start.y \/ row > sel.end.y THEN Range(0, 0)
    ELSE IF sel.start.y = sel.end.y
         THEN IF sel.start.x <= sel.end.x
                 THEN Range(sel.start.x, saturating_add1(sel.end.x))
                 ELSE Range(sel.end.x, saturating_add1(sel.start.x))
    ELSE IF row = sel.end.y THEN Range(0, saturating_add1(sel.end.x))
    ELSE IF row = sel.start.y THEN Range(sel.start.x, USIZE_MAX)
    ELSE Range(0, USIZE_MAX)

intersects_range(r1, r2) == Min(r1.end, r2.end) > Max(r1.start, r2.start)

----------------------------------------------------------------------------
(* TabStop *)

TabWidth == 8

TabStopNew(screen_width, tab_width) ==
    [tab_width |-> tab_width,
     tabs |-> [i \in 1 .. screen_width |-> ((i - 1) % tab_width) = 0]]

set_tab_stop(tabs, col) == [tabs EXCEPT !.tabs[col + 1] = TRUE]

(* find_next_tab_stop that starts its search at col itself *)
find_next_tab_stop_FromCol(tabs, col) ==
    LET later == {i \in col .. (Len(tabs.tabs) - 1) : tabs.tabs[i + 1]}
    IN  IF later = {} THEN None
        ELSE Some(CHOOSE i \in later : \A j \in later : i <= j)

find_next_tab_stop(tabs, col) ==
    LET later == {i \in (col + 1) .. (Len(tabs.tabs) - 1) : tabs.tabs[i + 1]}
    IN  IF later = {} THEN None
        ELSE Some(CHOOSE i \in later : \A j \in later : i <= j)

tabs_resize(tabs, screen_width) ==
    LET current == Len(tabs.tabs)
    IN  IF screen_width > current
           THEN [tabs EXCEPT !.tabs =
                    @ \o [i \in 1 .. (screen_width - current) |->
                            ((current + i - 1) % tabs.tab_width) = 0]]
           ELSE tabs

----------------------------------------------------------------------------
(* ScreenOrAlt *)

DefaultCursor == [x |-> 0, y |-> 0]

(* ScreenOrAlt::new with the alternate screen given the scrollback too *)
ScreenOrAltNewBad(physical_rows, physical_cols, scrollback_size) ==
    [screen |-> ScreenNew(physical_rows, physical_cols, scrollback_size),
     alt_screen |-> ScreenNew(physical_rows, physical_cols, scrollback_size),
     alt_screen_is_active |-> FALSE,
     saved_cursor |-> None,
     alt_saved_cursor |-> None]

ScreenOrAltNew(physical_rows, physical_cols, scrollback_size) ==
    [screen |-> ScreenNew(physical_rows, physical_cols, scrollback_size),
     alt_screen |-> ScreenNew(physical_rows, physical_cols, 0),
     alt_screen_is_active |-> FALSE,
     saved_cursor |-> None,
     alt_saved_cursor |-> None]

ScreenOrAltResize(so, physical_rows, physical_cols) ==
    [so EXCEPT !.screen = screen_resize(@, physical_rows, physical_cols),
               !.alt_screen = screen_resize(@, physical_rows, physical_cols)]

(* Deref / DerefMut of ScreenOrAlt: the active screen *)
Screen(t) == IF t.screen.alt_screen_is_active THEN t.screen.alt_screen ELSE t.screen.screen

SetScreen(t, s) ==
    IF t.screen.alt_screen_is_active
       THEN [t EXCEPT !.screen.alt_screen = s]
       ELSE [t EXCEPT !.screen.screen = s]

activate_alt_screen(t) == [t EXCEPT !.screen.alt_screen_is_active = TRUE]
activate_primary_screen(t) == [t EXCEPT !.screen.alt_screen_is_active = FALSE]
is_alt_screen_active(t) == t.screen.alt_screen_is_active

saved_cursor(t) ==
    IF t.screen.alt_screen_is_active THEN t.screen.alt_saved_cursor ELSE t.screen.saved_cursor

(* one slot for both screens *)
set_saved_cursor_OneSlot(t, saved) == [t EXCEPT !.screen.saved_cursor = saved]

set_saved_cursor(t, saved) ==
    IF t.screen.alt_screen_is_active
       THEN [t EXCEPT !.screen.alt_saved_cursor = saved]
       ELSE [t EXCEPT !.screen.saved_cursor = saved]

----------------------------------------------------------------------------
(* TerminalState *)

TerminalStateNew(physical_rows, physical_cols, scrollback_size) ==
    [tabs |-> TabStopNew(physical_cols, TabWidth),
     screen |-> ScreenOrAltNew(physical_rows, physical_cols, scrollback_size),
     pen |-> DefaultAttributes,
     cursor |-> DefaultCursor,
     scroll_region |-> Range(0, physical_rows),
     wrap_next |-> FALSE,
     insert |-> FALSE,
     application_cursor_keys |-> FALSE,
     application_keypad |-> FALSE,
     bracketed_paste |-> FALSE,
     sgr_mouse |-> FALSE,
     button_event_mouse |-> FALSE,
     cursor_visible |-> TRUE,
     dec_line_drawing_mode |-> FALSE,
     current_mouse_button |-> "None",
     mouse_position |-> DefaultCursor,
     current_highlight |-> None,
     last_mouse_click |-> None,
     viewport_offset |-> 0,
     selection_range |-> None,
     selection_start |-> None,
     title |-> "miro"]

(* The cursor names a row and a column of the screen.  Every operation     *)
(* that touches the cursor's line indexes the screen with it.              *)
CursorInBounds(t) ==
    /\ 0 <= t.cursor.x /\ t.cursor.x <= Screen(t).physical_cols - 1
    /\ 0 <= t.cursor.y /\ t.cursor.y <= Screen(t).physical_rows - 1

get_selection_text(t) ==
    IF ~IsSome(t.selection_range) THEN <<>>
    ELSE LET sel == normalize(Unwrap(t.selection_range))
             s == Screen(t)
             RowText(y) ==
                 TrimEnd(columns_as_str(s.lines[scrollback_or_visible_row(s, y) + 1],
                                        cols_for_row(sel, y)))
             Wrapped(y) ==
                 LET line == s.lines[scrollback_or_visible_row(s, y) + 1]
                     cols == cols_for_row(sel, y)
                     last_col_idx == Min(cols.end, Len(line.cells)) - 1
                     last_cell == line.cells[last_col_idx + 1]
                 IN  last_cell.attrs.wrapped /\ last_cell.text /= <<" ">>
             F[y \in sel.start.y .. sel.end.y] ==
                 IF y = sel.start.y THEN RowText(y)
                 ELSE IF F[y - 1] /= <<>> /\ ~Wrapped(y - 1)
                         THEN F[y - 1] \o <<"\n">> \o RowText(y)
                         ELSE F[y - 1] \o RowText(y)
         IN  F[sel.end.y]

dirty_selection_lines(t) ==
    IF ~IsSome(t.selection_range) THEN t
    ELSE LET sel == normalize(Unwrap(t.selection_range))
             s == Screen(t)
             rows == selection_rows(sel)
             from == scrollback_or_visible_row(s, rows.start)
             to == scrollback_or_visible_row(s, rows.end)
         IN  SetScreen(t, [s EXCEPT !.lines =
                 [i \in 1 .. Len(s.lines) |->
                     IF from <= i - 1 /\ i - 1 < to THEN line_set_dirty(s.lines[i])
                     ELSE s.lines[i]]])

clear_selection(t) ==
    [dirty_selection_lines(t) EXCEPT !.selection_range = None, !.selection_start = None]

(* clear_selection_if_intersects: [t |-> the new state, cleared |-> the    *)
(* returned flag].  The selection has been taken out of the state while    *)
(* clear_selection runs, so no selection line is dirtied on that path.     *)
clear_selection_if_intersects(t, cols, row) ==
    IF ~IsSome(t.selection_range) THEN [t |-> t, cleared |-> TRUE]
    ELSE LET sel == normalize(Unwrap(t.selection_range))
             sel_cols == cols_for_row(sel, row)
             taken == [t EXCEPT !.selection_range = None]
         IN  IF intersects_range(cols, sel_cols)
                THEN [t |-> clear_selection(taken), cleared |-> TRUE]
                ELSE [t |-> [taken EXCEPT !.selection_range = Some(sel)], cleared |-> FALSE]

clear_selection_if_intersects_rows(t, rows) ==
    IF ~IsSome(t.selection_range) THEN [t |-> t, cleared |-> TRUE]
    ELSE LET sel == Unwrap(t.selection_range)
             sel_rows == selection_rows(sel)
             taken == [t EXCEPT !.selection_range = None]
         IN  IF intersects_range(rows, sel_rows)
                THEN [t |-> clear_selection(taken), cleared |-> TRUE]
                ELSE [t |-> [taken EXCEPT !.selection_range = Some(sel)], cleared |-> FALSE]

hyperlink_for_cell(t, x, y) ==
    LET s == Screen(t)
        idx == scrollback_or_visible_row(s, y)
    IN  IF ~RowExists(s, idx) THEN None
        ELSE IF x < Len(s.lines[idx + 1].cells)
                THEN s.lines[idx + 1].cells[x + 1].attrs.hyperlink
                ELSE None

invalidate_hyperlinks(t) ==
    LET s == Screen(t)
    IN  SetScreen(t, [s EXCEPT !.lines =
            [i \in 1 .. Len(s.lines) |->
                IF line_has_hyperlink(s.lines[i]) THEN line_set_dirty(s.lines[i])
                ELSE s.lines[i]]])

recompute_highlight(t) ==
    LET line_idx == t.mouse_position.y - t.viewport_offset
        x == t.mouse_position.x
    IN  invalidate_hyperlinks([t EXCEPT !.current_highlight = hyperlink_for_cell(t, x, line_idx)])

----------------------------------------------------------------------------
(* Cursor movement, viewport and scrolling *)

Relative(v) == [v |-> v, kind |-> "Relative"]
Absolute(v) == [v |-> v, kind |-> "Absolute"]

set_cursor_pos(t, px, py) ==
    LET x == IF px.kind = "Relative" THEN Max(t.cursor.x + px.v, 0) ELSE px.v
        y == IF py.kind = "Relative" THEN Max(t.cursor.y + py.v, 0) ELSE py.v
        rows == Screen(t).physical_rows
        cols == Screen(t).physical_cols
        old_y == t.cursor.y
        new_y == Min(y, rows - 1)
        moved == [t EXCEPT !.cursor = [x |-> Min(x, cols - 1), y |-> new_y],
                           !.wrap_next = FALSE]
    IN  SetScreen(moved, dirty_line(dirty_line(Screen(moved), old_y), new_y))

(* set_scroll_viewport without the upper limit of the available scrollback *)
set_scroll_viewport_NoUpperLimit(t, position) ==
    LET cleared == clear_selection(t)
        rows == Screen(cleared).physical_rows
        pos == Max(position, 0)
        top == Len(Screen(cleared).lines) - (rows + pos)
        s == Screen(cleared)
        dirtied == [s EXCEPT !.lines =
                      [i \in 1 .. Len(s.lines) |->
                          IF top <= i - 1 /\ i - 1 < top + rows
                             THEN line_set_dirty(s.lines[i]) ELSE s.lines[i]]]
    IN  recompute_highlight(SetScreen([cleared EXCEPT !.viewport_offset = pos], dirtied))

set_scroll_viewport(t, position) ==
    LET cleared == clear_selection(t)
        rows == Screen(cleared).physical_rows
        avail_scrollback == Len(Screen(cleared).lines) - rows
        pos == Min(Max(position, 0), avail_scrollback)
        top == Len(Screen(cleared).lines) - (rows + pos)
        s == Screen(cleared)
        dirtied == [s EXCEPT !.lines =
                      [i \in 1 .. Len(s.lines) |->
                          IF top <= i - 1 /\ i - 1 < top + rows
                             THEN line_set_dirty(s.lines[i]) ELSE s.lines[i]]]
    IN  recompute_highlight(SetScreen([cleared EXCEPT !.viewport_offset = pos], dirtied))

scroll_viewport(t, delta) == set_scroll_viewport(t, t.viewport_offset - delta)

(* scroll_up that scrolls the whole screen whatever the scroll region is *)
scroll_up_FullRegion(t, num_rows) ==
    LET cleared == clear_selection(t)
    IN  SetScreen(cleared, screen_scroll_up(Screen(cleared),
                                            Range(0, Screen(cleared).physical_rows), num_rows))

scroll_up(t, num_rows) ==
    LET cleared == clear_selection(t)
    IN  SetScreen(cleared, screen_scroll_up(Screen(cleared), cleared.scroll_region, num_rows))

scroll_down(t, num_rows) ==
    LET cleared == clear_selection(t)
    IN  SetScreen(cleared, screen_scroll_down(Screen(cleared), cleared.scroll_region, num_rows))

new_line(t, move_to_first_column) ==
    LET x == IF move_to_first_column THEN 0 ELSE t.cursor.x
        y == t.cursor.y
        at_bottom == (y = t.scroll_region.end - 1)
        scrolled == IF at_bottom THEN scroll_up(t, 1) ELSE t
        ny == IF at_bottom THEN y ELSE y + 1
    IN  set_cursor_pos(scrolled, Absolute(x), Absolute(ny))

c1_index(t) ==
    LET y == t.cursor.y
        at_bottom == (y = t.scroll_region.end - 1)
        scrolled == IF at_bottom THEN scroll_up(t, 1) ELSE t
        ny == IF at_bottom THEN y ELSE y + 1
    IN  set_cursor_pos(scrolled, Relative(0), Absolute(ny))

c1_nel(t) == new_line(t, TRUE)

c1_hts(t) == [t EXCEPT !.tabs = set_tab_stop(@, t.cursor.x)]

c0_horizontal_tab(t) ==
    LET stop == find_next_tab_stop(t.tabs, t.cursor.x)
        x == IF IsSome(stop) THEN Unwrap(stop) ELSE Screen(t).physical_cols - 1
    IN  set_cursor_pos(t, Absolute(x), Relative(0))

c1_reverse_index(t) ==
    LET y == t.cursor.y
        at_top == (y = t.scroll_region.start)
        scrolled == IF at_top THEN scroll_down(t, 1) ELSE t
        ny == IF at_top THEN y ELSE y - 1
    IN  set_cursor_pos(scrolled, Relative(0), Absolute(ny))

set_hyperlink(t, link) == [t EXCEPT !.pen.hyperlink = link]

save_cursor(t) ==
    set_saved_cursor(t, Some([wrap_next |-> t.wrap_next, insert |-> t.insert,
                              position |-> t.cursor]))

(* restore_cursor that puts the cursor back but leaves wrap_next and       *)
(* insert as set_cursor_pos and the screen in use left them                *)
restore_cursor_PositionOnly(t) ==
    LET slot == saved_cursor(t)
        position == IF IsSome(slot) THEN Unwrap(slot).position ELSE DefaultCursor
    IN  set_cursor_pos(t, Absolute(position.x), Absolute(position.y))

restore_cursor(t) ==
    LET slot == saved_cursor(t)
        saved == IF IsSome(slot) THEN Unwrap(slot)
                 ELSE [wrap_next |-> FALSE, insert |-> FALSE, position |-> DefaultCursor]
        placed == set_cursor_pos(t, Absolute(saved.position.x), Absolute(saved.position.y))
    IN  [placed EXCEPT !.wrap_next = saved.wrap_next, !.insert = saved.insert]

(* resize without the closing set_cursor_pos: the cursor keeps its old cell *)
resize_KeepCursor(t, physical_rows, physical_cols) ==
    set_scroll_viewport([t EXCEPT !.screen = ScreenOrAltResize(@, physical_rows, physical_cols),
                                  !.scroll_region = Range(0, physical_rows),
                                  !.tabs = tabs_resize(@, physical_cols)], 0)

resize(t, physical_rows, physical_cols) ==
    LET r1 == [t EXCEPT !.screen = ScreenOrAltResize(@, physical_rows, physical_cols),
                        !.scroll_region = Range(0, physical_rows),
                        !.tabs = tabs_resize(@, physical_cols)]
        r2 == set_scroll_viewport(r1, 0)
    IN  set_cursor_pos(r2, Relative(0), Relative(0))

----------------------------------------------------------------------------
(* CSI edit operations *)

RECURSIVE Repeatedly(_, _, _)
(* apply Op(s) n times *)
Repeatedly(Op(_), s, n) == IF n <= 0 THEN s ELSE Repeatedly(Op, Op(s), n - 1)

EraseInLineRange(t, erase) ==
    LET cx == t.cursor.x
        cols == Screen(t).physical_cols
    IN  CASE erase = "EraseToEndOfLine" -> Range(cx, cols)
          [] erase = "EraseToStartOfLine" -> Range(0, cx)
          [] erase = "EraseLine" -> Range(0, cols)

erase_in_line(t, erase) ==
    LET cy == t.cursor.y
        pen == clone_sgr_only(t.pen)
        range == EraseInLineRange(t, erase)
        cleared == SetScreen(t, clear_line(Screen(t), cy, range, pen))
    IN  clear_selection_if_intersects(cleared, range, cy).t

RECURSIVE ClearLines(_, _, _, _)
ClearLines(s, from, to, pen) ==
    IF from >= to THEN s
    ELSE ClearLines(clear_line(s, from, Range(0, USIZE_MAX), pen), from + 1, to, pen)

RECURSIVE ClearSelectionRows(_, _, _)
(* for y in row_range { if clear_selection_if_intersects(..) { break } } *)
ClearSelectionRows(t, from, to) ==
    IF from >= to THEN t
    ELSE LET r == clear_selection_if_intersects(t, Range(0, USIZE_MAX), from)
         IN  IF r.cleared THEN r.t ELSE ClearSelectionRows(r.t, from + 1, to)

(* erase_in_display with EraseDisplay stopping one row short of the bottom *)
erase_in_display_ShortRange(t, erase) ==
    LET cy == t.cursor.y
        pen == clone_sgr_only(t.pen)
        rows == Screen(t).physical_rows
    IN  IF erase = "EraseScrollback" THEN t
        ELSE LET t1 == CASE erase = "EraseToEndOfDisplay" -> erase_in_line(t, "EraseToEndOfLine")
                         [] erase = "EraseToStartOfDisplay" -> erase_in_line(t, "EraseToStartOfLine")
                         [] erase = "EraseDisplay" -> t
                 row_range == CASE erase = "EraseToEndOfDisplay" -> Range(cy + 1, rows)
                                [] erase = "EraseToStartOfDisplay" -> Range(0, cy)
                                [] erase = "EraseDisplay" -> Range(0, rows - 1)
                 t2 == SetScreen(t1, ClearLines(Screen(t1), row_range.start, row_range.end, pen))
             IN  ClearSelectionRows(t2, row_range.start, row_range.end)

erase_in_display(t, erase) ==
    LET cy == t.cursor.y
        pen == clone_sgr_only(t.pen)
        rows == Screen(t).physical_rows
    IN  IF erase = "EraseScrollback" THEN t
        ELSE LET t1 == CASE erase = "EraseToEndOfDisplay" -> erase_in_line(t, "EraseToEndOfLine")
                         [] erase = "EraseToStartOfDisplay" -> erase_in_line(t, "EraseToStartOfLine")
                         [] erase = "EraseDisplay" -> t
                 row_range == CASE erase = "EraseToEndOfDisplay" -> Range(cy + 1, rows)
                                [] erase = "EraseToStartOfDisplay" -> Range(0, cy)
                                [] erase = "EraseDisplay" -> Range(0, rows)
                 t2 == SetScreen(t1, ClearLines(Screen(t1), row_range.start, row_range.end, pen))
             IN  ClearSelectionRows(t2, row_range.start, row_range.end)

(* An Edit is [op |-> name, n |-> count] or, for the erase operations,     *)
(* [op |-> name, erase |-> variant].                                       *)
perform_csi_edit(t, edit) ==
    LET x == t.cursor.x
        y == t.cursor.y
        cols == Screen(t).physical_cols
    IN  CASE edit.op = "DeleteCharacter" ->
               LET limit == Min(x + edit.n, cols)
                   Erase(s) == screen_erase_cell(s, x, y)
                   t1 == SetScreen(t, Repeatedly(Erase, Screen(t), limit - x))
               IN  clear_selection_if_intersects(t1, Range(x, limit), y).t
          [] edit.op = "DeleteLine" ->
               IF RangeContains(t.scroll_region, y)
                  THEN LET region == Range(y, t.scroll_region.end)
                           t1 == SetScreen(t, screen_scroll_up(Screen(t), region, edit.n))
                       IN  clear_selection_if_intersects_rows(t1, region).t
                  ELSE t
          [] edit.op = "EraseCharacter" ->
               LET limit == Min(x + edit.n, cols)
                   blank == CellNew(" ", clone_sgr_only(t.pen))
                   F[i \in x .. limit] ==
                       IF i = x THEN Screen(t) ELSE screen_set_cell(F[i - 1], i - 1, y, blank)
                   t1 == SetScreen(t, F[limit])
               IN  clear_selection_if_intersects(t1, Range(x, limit), y).t
          [] edit.op = "EraseInLine" -> erase_in_line(t, edit.erase)
          [] edit.op = "InsertCharacter" ->
               LET limit == Min(x + edit.n, cols)
                   F[i \in x .. limit] ==
                       IF i = x THEN Screen(t) ELSE screen_insert_cell(F[i - 1], i - 1, y)
                   t1 == SetScreen(t, F[limit])
               IN  clear_selection_if_intersects(t1, Range(x, limit), y).t
          [] edit.op = "InsertLine" ->
               IF RangeContains(t.scroll_region, y)
                  THEN LET region == Range(y, t.scroll_region.end)
                           t1 == SetScreen(t, screen_scroll_down(Screen(t), region, edit.n))
                       IN  clear_selection_if_intersects_rows(t1, region).t
                  ELSE t
          [] edit.op = "ScrollDown" -> scroll_down(t, edit.n)
          [] edit.op = "ScrollUp" -> scroll_up(t, edit.n)
          [] edit.op = "EraseInDisplay" -> erase_in_display(t, edit.erase)
          [] edit.op = "Repeat" ->
               LET to_copy == IF x >= 1 THEN x - 1 ELSE 0
                   s == Screen(t)
                   line_idx == phys_row(s, y)
                   line == s.lines[line_idx + 1]
               IN  IF to_copy < Len(line.cells)
                      THEN LET cell == line.cells[to_copy + 1]
                               filled == line_fill_range(line, Range(x, x + edit.n + 1), cell)
                           IN  set_cursor_pos(SetScreen(t, UpdateLine(s, line_idx, filled)),
                                              Relative(edit.n), Relative(0))
                      ELSE t

----------------------------------------------------------------------------
(* The host: the pty writer, the window title, the clipboard *)

HostNew ==
    [written |-> <<>>,          \* what the writer accepted, one entry per write
     broken |-> FALSE,          \* the writer returns an error on every write
     write_failed |-> FALSE,    \* the writer returned an error since the current call began
     title |-> None,
     clipboard |-> None]

(* writer().write(..) / write!(writer(), ..): the io::Result it returns *)
WriteOk(h) == ~h.broken

HostWrite(h, bytes) ==
    IF h.broken THEN [h EXCEPT !.write_failed = TRUE]
    ELSE [h EXCEPT !.written = Append(@, bytes)]

TH(t, h) == [host |-> h, t |-> t]

----------------------------------------------------------------------------
(* Decimal formatting and parsing of the numbers in reports *)

DigitChars == <<"0", "1", "2", "3", "4", "5", "6", "7", "8", "9">>

RECURSIVE ToDecimal(_)
ToDecimal(n) ==
    IF n < 10 THEN <<DigitChars[n + 1]>>
    ELSE Append(ToDecimal(n \div 10), DigitChars[(n % 10) + 1])

HexChars == <<"0", "1", "2", "3", "4", "5", "6", "7", "8", "9", "a", "b", "c", "d", "e", "f">>

(* {:04x} of a u16 *)
ToHex4(n) ==
    <<HexChars[((n \div 4096) % 16) + 1], HexChars[((n \div 256) % 16) + 1],
      HexChars[((n \div 16) % 16) + 1], HexChars[(n % 16) + 1]>>

DigitValue(c) == CHOOSE d \in 0 .. 9 : DigitChars[d + 1] = c
IsDigit(c) == \E d \in 0 .. 9 : DigitChars[d + 1] = c

RECURSIVE FromDecimal(_)
FromDecimal(ds) ==
    IF ds = <<>> THEN 0
    ELSE FromDecimal(SubSeq(ds, 1, Len(ds) - 1)) * 10 + DigitValue(ds[Len(ds)])

(* OneBased *)
from_zero_based(v) == v + 1
as_zero_based(v) == IF v >= 1 THEN v - 1 ELSE 0

(* Display of CSI::Cursor(Cursor::ActivePositionReport { line, col }) *)
EncodeActivePositionReport(line, col) ==
    <<"ESC", "[">> \o ToDecimal(line) \o <<";">> \o ToDecimal(col) \o <<"R">>

(* Display of CSI::Window(Window::ResizeWindowCells { width, height }) *)
EncodeResizeWindowCells(width, height) ==
    <<"ESC", "[", "8", ";">> \o ToDecimal(height) \o <<";">> \o ToDecimal(width) \o <<"t">>

(* the decoder's reading of an ActivePositionReport: ESC [ line ; col R *)
IsActivePositionReport(b) ==
    /\ Len(b) >= 6
    /\ b[1] = "ESC" /\ b[2] = "[" /\ b[Len(b)] = "R"
    /\ \E semi \in 4 .. Len(b) - 2 :
          /\ b[semi] = ";"
          /\ \A i \in 3 .. Len(b) - 1 : i /= semi => IsDigit(b[i])

DecodeActivePositionReport(b) ==
    LET semi == CHOOSE i \in 4 .. Len(b) - 2 : b[i] = ";"
    IN  [line |-> FromDecimal(SubSeq(b, 3, semi - 1)),
         col |-> FromDecimal(SubSeq(b, semi + 1, Len(b) - 1))]

DEVICE_IDENT == <<"ESC", "[", "?", "6", "c">>

----------------------------------------------------------------------------
(* CSI cursor operations *)

(* the RequestActivePositionReport arm with the zero-based cursor reported *)
request_active_position_report_ZeroBased(t, h) ==
    TH(t, HostWrite(h, EncodeActivePositionReport(t.cursor.y, t.cursor.x)))

(* the RequestActivePositionReport arm of perform_csi_cursor *)
request_active_position_report(t, h) ==
    LET line == from_zero_based(t.cursor.y)
        col == from_zero_based(t.cursor.x)
    IN  TH(t, HostWrite(h, EncodeActivePositionReport(line, col)))

(* the margins clamped to the rows but left in the order they came in *)
set_top_and_bottom_margins_NoSwap(t, top1, bottom1) ==
    LET rows == Screen(t).physical_rows
        top0 == Max(Min(as_zero_based(top1), rows - 1), 0)
        bottom0 == Max(Min(as_zero_based(bottom1), rows - 1), 0)
    IN  [t EXCEPT !.scroll_region = Range(top0, bottom0 + 1)]

(* the arm Cursor::SetTopAndBottomMargins { top, bottom } *)
set_top_and_bottom_margins(t, top1, bottom1) ==
    LET rows == Screen(t).physical_rows
        top0 == Max(Min(as_zero_based(top1), rows - 1), 0)
        bottom0 == Max(Min(as_zero_based(bottom1), rows - 1), 0)
        top == Min(top0, bottom0)
        bottom == Max(top0, bottom0)
    IN  [t EXCEPT !.scroll_region = Range(top, bottom + 1)]

perform_csi_cursor(t, h, cursor) ==
    CASE cursor.op = "SetTopAndBottomMargins" ->
           TH(set_top_and_bottom_margins(t, cursor.top, cursor.bottom), h)
      [] cursor.op = "ForwardTabulation" -> TH(Repeatedly(c0_horizontal_tab, t, cursor.n), h)
      [] cursor.op \in {"BackwardTabulation", "TabulationClear", "TabulationControl",
                        "LineTabulation", "ActivePositionReport", "CursorStyle"} -> TH(t, h)
      [] cursor.op = "Left" -> TH(set_cursor_pos(t, Relative(-cursor.n), Relative(0)), h)
      [] cursor.op = "Right" -> TH(set_cursor_pos(t, Relative(cursor.n), Relative(0)), h)
      [] cursor.op = "Up" -> TH(set_cursor_pos(t, Relative(0), Relative(-cursor.n)), h)
      [] cursor.op = "Down" -> TH(set_cursor_pos(t, Relative(0), Relative(cursor.n)), h)
      [] cursor.op \in {"CharacterAndLinePosition", "Position"} ->
           TH(set_cursor_pos(t, Absolute(as_zero_based(cursor.col)),
                                Absolute(as_zero_based(cursor.line))), h)
      [] cursor.op \in {"CharacterAbsolute", "CharacterPositionAbsolute"} ->
           TH(set_cursor_pos(t, Absolute(as_zero_based(cursor.col)), Relative(0)), h)
      [] cursor.op = "CharacterPositionBackward" ->
           TH(set_cursor_pos(t, Relative(-cursor.n), Relative(0)), h)
      [] cursor.op = "CharacterPositionForward" ->
           TH(set_cursor_pos(t, Relative(cursor.n), Relative(0)), h)
      [] cursor.op = "LinePositionAbsolute" ->
           TH(set_cursor_pos(t, Relative(0), Absolute(cursor.n - 1)), h)
      [] cursor.op = "LinePositionBackward" ->
           TH(set_cursor_pos(t, Relative(0), Relative(-cursor.n)), h)
      [] cursor.op = "LinePositionForward" ->
           TH(set_cursor_pos(t, Relative(0), Relative(cursor.n)), h)
      [] cursor.op = "NextLine" ->
           LET NL(s) == new_line(s, TRUE) IN TH(Repeatedly(NL, t, cursor.n), h)
      [] cursor.op = "PrecedingLine" ->
           TH(set_cursor_pos(t, Absolute(0), Relative(-cursor.n)), h)
      [] cursor.op = "RequestActivePositionReport" -> request_active_position_report(t, h)
      [] cursor.op = "SaveCursor" -> TH(save_cursor(t), h)
      [] cursor.op = "RestoreCursor" -> TH(restore_cursor(t), h)

----------------------------------------------------------------------------
(* SGR *)

(* perform_csi_sgr with Reset putting the whole default pen back *)
perform_csi_sgr_ResetAll(t, sgr) ==
    CASE sgr.op = "Reset" -> [t EXCEPT !.pen = DefaultAttributes]
      [] sgr.op = "Intensity" -> [t EXCEPT !.pen.intensity = sgr.v]
      [] sgr.op = "Foreground" -> [t EXCEPT !.pen.foreground = sgr.v]
      [] sgr.op = "Font" -> t

perform_csi_sgr(t, sgr) ==
    CASE sgr.op = "Reset" ->
           LET link == t.pen.hyperlink
           IN  [t EXCEPT !.pen = [DefaultAttributes EXCEPT !.hyperlink = link]]
      [] sgr.op = "Intensity" -> [t EXCEPT !.pen.intensity = sgr.v]
      [] sgr.op = "Foreground" -> [t EXCEPT !.pen.foreground = sgr.v]
      [] sgr.op = "Font" -> t

----------------------------------------------------------------------------
(* Device and window queries *)

perform_device(t, h, dev) ==
    CASE dev = "DeviceAttributes" -> TH(t, h)
      [] dev = "SoftReset" -> TH([t EXCEPT !.pen = DefaultAttributes], h)
      [] dev = "RequestPrimaryDeviceAttributes" -> TH(t, HostWrite(h, DEVICE_IDENT))
      [] dev = "RequestSecondaryDeviceAttributes" ->
           TH(t, HostWrite(h, <<"ESC", "[", ">", "0", ";", "0", ";", "0", "c">>))
      [] dev = "StatusReport" -> TH(t, HostWrite(h, <<"ESC", "[", "0", "n">>))

(* `ch as u8`: the low eight bits of the code point of a cell's first char *)
CharByte(c) ==
    CASE c = " " -> 32
      [] c = "a" -> 97
      [] c = "b" -> 98
      [] c = "4" -> 52
      [] c = "[" -> 91
      [] c = "h" -> 104
      [] c = WideChar -> 45
      [] c = Combining -> 1
      [] c = "box_j" -> 24
      [] c = "box_k" -> 16
      [] c = "box_l" -> 12
      [] c = "box_m" -> 20
      [] c = "box_n" -> 60
      [] c = "box_q" -> 0
      [] c = "box_t" -> 28
      [] c = "box_u" -> 36
      [] c = "box_v" -> 52
      [] c = "box_w" -> 44
      [] c = "box_x" -> 2

(* checksum += u16::from(ch as u8): with overflow checks compiled in the    *)
(* addition panics when the sum passes u16::MAX, without them it wraps      *)
checksum_add(acc, byte, overflow_checks) ==
    IF acc.fault THEN acc
    ELSE IF acc.checksum + byte > U16_MAX
       THEN IF overflow_checks THEN [acc EXCEPT !.fault = TRUE]
            ELSE [acc EXCEPT !.checksum = (@ + byte) % (U16_MAX + 1)]
    ELSE [acc EXCEPT !.checksum = @ + byte]

RECURSIVE checksum_cells(_, _, _, _, _)
(* for (col, cell) in line.cells().iter().enumerate().skip(left) {          *)
(*     if col > right { break } ... }                                       *)
checksum_cells(cells, col, right, acc, overflow_checks) ==
    IF col >= Len(cells) \/ col > right \/ acc.fault THEN acc
    ELSE checksum_cells(cells, col + 1, right,
                        checksum_add(acc, CharByte(cells[col + 1].text[1]), overflow_checks),
                        overflow_checks)

RECURSIVE checksum_rows(_, _, _, _, _, _, _)
(* for y in top..=bottom: screen.line_mut(phys_row(y)) indexes the lines,   *)
(* which panics for an index that is not a line of the screen               *)
checksum_rows(s, y, bottom, left, right, acc, overflow_checks) ==
    IF y > bottom \/ acc.fault THEN acc
    ELSE IF ~RowExists(s, phys_row(s, y)) THEN [acc EXCEPT !.fault = TRUE]
    ELSE checksum_rows(s, y + 1, bottom, left, right,
                       checksum_cells(s.lines[phys_row(s, y) + 1].cells, left, right, acc,
                                      overflow_checks),
                       overflow_checks)

(* TerminalState::checksum_rectangle, on zero-based bounds *)
checksum_rectangle(t, left, top, right, bottom, overflow_checks) ==
    checksum_rows(Screen(t), top, bottom, left, right, [fault |-> FALSE, checksum |-> 0],
                  overflow_checks)

(* write!(.., "\x1bP{}!~{:04x}\x1b\\", request_id, checksum) *)
EncodeChecksumResponse(request_id, checksum) ==
    <<"ESC", "P">> \o ToDecimal(request_id) \o <<"!", "~">> \o ToHex4(checksum)
    \o <<"ESC", "\\">>

(* the ChecksumRectangularArea arm, given the outcome of checksum_rectangle *)
checksum_response(t, h, request_id, r) ==
    IF r.fault THEN [host |-> h, t |-> t, fault |-> TRUE]
    ELSE [host |-> HostWrite(h, EncodeChecksumResponse(request_id, r.checksum)), t |-> t,
          fault |-> FALSE]

perform_csi_window(t, h, window) ==
    CASE window.op = "ReportTextAreaSizeCells" ->
           [host |-> HostWrite(h, EncodeResizeWindowCells(Screen(t).physical_cols,
                                                          Screen(t).physical_rows)),
            t |-> t,
            fault |-> FALSE]
      [] window.op = "ChecksumRectangularArea" ->
           checksum_response(t, h, window.request_id,
                             checksum_rectangle(t, as_zero_based(window.left),
                                                as_zero_based(window.top),
                                                as_zero_based(window.right),
                                                as_zero_based(window.bottom),
                                                window.overflow_checks))
      [] OTHER -> [host |-> h, t |-> t, fault |-> FALSE]

----------------------------------------------------------------------------
(* Modes *)

(* perform_csi_mode with the mode code of SetMode / ResetMode not looked at *)
perform_csi_mode_AnyCode(t, mode) ==
    IF mode.action \in {"SetMode", "ResetMode"}
       THEN [t EXCEPT !.insert = (mode.action = "SetMode")]
       ELSE t

(* the alternate-screen modes, switching without set_scroll_viewport(0) *)
perform_csi_mode_KeepViewport(t, mode) ==
    IF mode.action = "SetDecPrivateMode"
       THEN IF ~is_alt_screen_active(t)
               THEN IF mode.code = "EnableAlternateScreen"
                       THEN activate_alt_screen(t)
                       ELSE erase_in_display(
                                set_cursor_pos(activate_alt_screen(save_cursor(t)),
                                               Absolute(0), Absolute(0)), "EraseDisplay")
               ELSE t
       ELSE IF is_alt_screen_active(t)
               THEN IF mode.code = "EnableAlternateScreen"
                       THEN activate_primary_screen(t)
                       ELSE restore_cursor(activate_primary_screen(t))
               ELSE t

perform_csi_mode(t, mode) ==
    LET set == (mode.action = "SetDecPrivateMode")
        reset == (mode.action = "ResetDecPrivateMode")
    IN  CASE mode.action \in {"SetMode", "ResetMode"} /\ mode.code = "Insert" ->
               [t EXCEPT !.insert = (mode.action = "SetMode")]
          [] (set \/ reset) /\ mode.code = "BracketedPaste" -> [t EXCEPT !.bracketed_paste = set]
          [] set /\ mode.code = "EnableAlternateScreen" ->
               IF ~is_alt_screen_active(t)
                  THEN set_scroll_viewport(activate_alt_screen(t), 0) ELSE t
          [] reset /\ mode.code = "EnableAlternateScreen" ->
               IF is_alt_screen_active(t)
                  THEN set_scroll_viewport(activate_primary_screen(t), 0) ELSE t
          [] (set \/ reset) /\ mode.code = "ApplicationCursorKeys" ->
               [t EXCEPT !.application_cursor_keys = set]
          [] (set \/ reset) /\ mode.code = "ShowCursor" -> [t EXCEPT !.cursor_visible = set]
          [] (set \/ reset) /\ mode.code = "ButtonEventMouse" ->
               [t EXCEPT !.button_event_mouse = set]
          [] (set \/ reset) /\ mode.code = "SGRMouse" -> [t EXCEPT !.sgr_mouse = set]
          [] set /\ mode.code = "ClearAndEnableAlternateScreen" ->
               IF ~is_alt_screen_active(t)
                  THEN LET t1 == activate_alt_screen(save_cursor(t))
                           t2 == set_cursor_pos(t1, Absolute(0), Absolute(0))
                           t3 == erase_in_display(t2, "EraseDisplay")
                       IN  set_scroll_viewport(t3, 0)
                  ELSE t
          [] reset /\ mode.code = "ClearAndEnableAlternateScreen" ->
               IF is_alt_screen_active(t)
                  THEN set_scroll_viewport(restore_cursor(activate_primary_screen(t)), 0)
                  ELSE t
          [] OTHER -> t

----------------------------------------------------------------------------
(* Performer: one per advance_bytes call.  p is the record                 *)
(* [t |-> TerminalState, host |-> host, print |-> Option<String>].         *)

(* fault: a handler of this Performer has panicked *)
Performer(t, h, pr) == [host |-> h, t |-> t, fault |-> FALSE, print |-> pr]

(* the DEC line drawing table: the box glyph a character maps to, or the   *)
(* character itself when the table has no entry for it                     *)
LineDrawing(c) ==
    CASE c = "j" -> "box_j" [] c = "k" -> "box_k" [] c = "l" -> "box_l"
      [] c = "m" -> "box_m" [] c = "n" -> "box_n" [] c = "q" -> "box_q"
      [] c = "t" -> "box_t" [] c = "u" -> "box_u" [] c = "v" -> "box_v"
      [] c = "w" -> "box_w" [] c = "x" -> "box_x"
      [] OTHER -> c

dec_line_drawing(t, g) ==
    IF t.dec_line_drawing_mode /\ Len(g) = 1
       THEN <<LineDrawing(g[1])>> ELSE g

(* put_cluster that writes the cluster over the cell at the cursor in      *)
(* insert mode too, without shifting the cells from there on               *)
put_cluster_Overwrite(t, g, x_offset) ==
    LET x == t.cursor.x
        y == t.cursor.y
        print_width == Max(unicode_column_width(g), 1)
        cell == new_grapheme(g, t.pen)
        s2 == screen_set_cell(Screen(t), x + x_offset, y, cell)
        t3 == clear_selection_if_intersects(SetScreen(t, s2), Range(x, x + print_width), y).t
    IN  IF t.insert
           THEN [t |-> t3, x_offset |-> x_offset + print_width]
        ELSE IF x + print_width < Screen(t).physical_cols
           THEN [t |-> [t3 EXCEPT !.cursor.x = x + print_width, !.wrap_next = FALSE],
                 x_offset |-> x_offset]
        ELSE [t |-> [t3 EXCEPT !.wrap_next = TRUE], x_offset |-> x_offset]

(* the rest of the loop body of flush_print, for the cluster g printed on   *)
(* the terminal t once a pending wrap has been taken                       *)
put_cluster(t, g, x_offset) ==
    LET x == t.cursor.x
        y == t.cursor.y
        width == Screen(t).physical_cols
        print_width == Max(unicode_column_width(g), 1)
        pen == IF ~t.insert /\ x + print_width >= width
                  THEN [t.pen EXCEPT !.wrapped = TRUE] ELSE t.pen
        cell == new_grapheme(g, pen)
        Ins(s) == screen_insert_cell(s, x + x_offset, y)
        s1 == IF t.insert THEN Repeatedly(Ins, Screen(t), print_width) ELSE Screen(t)
        s2 == screen_set_cell(s1, x + x_offset, y, cell)
        t3 == clear_selection_if_intersects(SetScreen(t, s2), Range(x, x + print_width), y).t
    IN  IF t.insert
           THEN [t |-> t3, x_offset |-> x_offset + print_width]
        ELSE IF x + print_width < width
           THEN [t |-> [t3 EXCEPT !.cursor.x = x + print_width, !.wrap_next = FALSE],
                 x_offset |-> x_offset]
        ELSE [t |-> [t3 EXCEPT !.wrap_next = TRUE], x_offset |-> x_offset]

(* flush_cluster moving to the next row as soon as the last column is     *)
(* written, instead of deferring the wrap to the next print                *)
flush_cluster_EagerWrap(t0, g0, x_offset) ==
    [put_cluster(t0, dec_line_drawing(t0, g0), x_offset)
        EXCEPT !.t = IF ~@.insert /\ @.wrap_next THEN new_line(@, TRUE) ELSE @]

(* the body of the loop of flush_print for one grapheme cluster *)
flush_cluster(t0, g0, x_offset) ==
    put_cluster(IF ~t0.insert /\ t0.wrap_next THEN new_line(t0, TRUE) ELSE t0,
                dec_line_drawing(t0, g0), x_offset)

RECURSIVE flush_clusters(_, _, _)
flush_clusters(t, gs, x_offset) ==
    IF gs = <<>> THEN t
    ELSE LET r == flush_cluster(t, Head(gs), x_offset)
         IN  flush_clusters(r.t, Tail(gs), r.x_offset)

flush_print(p) ==
    IF ~IsSome(p.print) THEN p
    ELSE [p EXCEPT !.t = flush_clusters(p.t, graphemes(Unwrap(p.print)), 0),
                   !.print = None]

performer_print(p, c) ==
    [p EXCEPT !.print = Some((IF IsSome(p.print) THEN Unwrap(p.print) ELSE <<>>) \o <<c>>)]

(* the match of Performer::control, on the performer p whose pending print
   has been flushed *)
(* the controls with a carriage return that leaves the cursor where it is *)
control_match_NoReturn(p, code) ==
    CASE code \in {"LineFeed", "VerticalTab", "FormFeed"} ->
           [p EXCEPT !.t = new_line(p.t, FALSE)]
      [] code = "Backspace" ->
           [p EXCEPT !.t = set_cursor_pos(p.t, Relative(-1), Relative(0))]
      [] code = "HorizontalTab" -> [p EXCEPT !.t = c0_horizontal_tab(p.t)]
      [] OTHER -> p

control_match(p, code) ==
    CASE code \in {"LineFeed", "VerticalTab", "FormFeed"} ->
           [p EXCEPT !.t = new_line(p.t, FALSE)]
      [] code = "CarriageReturn" ->
           [p EXCEPT !.t = set_cursor_pos(p.t, Absolute(0), Relative(0))]
      [] code = "Backspace" ->
           [p EXCEPT !.t = set_cursor_pos(p.t, Relative(-1), Relative(0))]
      [] code = "HorizontalTab" -> [p EXCEPT !.t = c0_horizontal_tab(p.t)]
      [] OTHER -> p

control(p0, code) == control_match(flush_print(p0), code)

(* the match of Performer::csi_dispatch, on the performer p whose pending print
   has been flushed *)
csi_dispatch_match(p, csi) ==
    LET WithTH(th) == [p EXCEPT !.t = th.t, !.host = th.host]
        WithFault(r) == [p EXCEPT !.t = r.t, !.host = r.host, !.fault = r.fault]
    IN  CASE csi.k = "Sgr" -> [p EXCEPT !.t = perform_csi_sgr(p.t, csi.sgr)]
          [] csi.k = "Cursor" -> WithTH(perform_csi_cursor(p.t, p.host, csi.cursor))
          [] csi.k = "Edit" -> [p EXCEPT !.t = perform_csi_edit(p.t, csi.edit)]
          [] csi.k = "Mode" -> [p EXCEPT !.t = perform_csi_mode(p.t, csi.mode)]
          [] csi.k = "Device" -> WithTH(perform_device(p.t, p.host, csi.dev))
          [] csi.k = "Mouse" -> p
          [] csi.k = "Window" -> WithFault(perform_csi_window(p.t, p.host, csi.window))
          [] csi.k = "Unspecified" -> p

csi_dispatch(p0, csi) == csi_dispatch_match(flush_print(p0), csi)

(* the match of Performer::esc_dispatch, on the performer p whose pending print
   has been flushed *)
esc_dispatch_match(p, esc) ==
    CASE esc = "StringTerminator" -> p
      [] esc = "DecApplicationKeyPad" -> [p EXCEPT !.t.application_keypad = TRUE]
      [] esc = "DecNormalKeyPad" -> [p EXCEPT !.t.application_keypad = FALSE]
      [] esc = "ReverseIndex" -> [p EXCEPT !.t = c1_reverse_index(p.t)]
      [] esc = "Index" -> [p EXCEPT !.t = c1_index(p.t)]
      [] esc = "NextLine" -> [p EXCEPT !.t = c1_nel(p.t)]
      [] esc = "HorizontalTabSet" -> [p EXCEPT !.t = c1_hts(p.t)]
      [] esc = "DecLineDrawing" -> [p EXCEPT !.t.dec_line_drawing_mode = TRUE]
      [] esc = "AsciiCharacterSet" -> [p EXCEPT !.t.dec_line_drawing_mode = FALSE]
      [] esc = "DecSaveCursorPosition" -> [p EXCEPT !.t = save_cursor(p.t)]
      [] esc = "DecRestoreCursorPosition" -> [p EXCEPT !.t = restore_cursor(p.t)]
      [] OTHER -> p

esc_dispatch(p0, esc) == esc_dispatch_match(flush_print(p0), esc)

(* the match of Performer::osc_dispatch, on the performer p whose pending print
   has been flushed *)
osc_dispatch_match(p, osc) ==
    CASE osc.k \in {"SetIconNameAndWindowTitle", "SetWindowTitle"} ->
           [p EXCEPT !.t.title = osc.title, !.host.title = Some(osc.title)]
      [] osc.k = "SetHyperlink" -> [p EXCEPT !.t = set_hyperlink(p.t, osc.link)]
      [] osc.k = "ClearSelection" -> [p EXCEPT !.host.clipboard = None]
      [] osc.k \in {"SetIconName", "Unspecified", "QuerySelection",
                    "SystemNotification"} -> p

osc_dispatch(p0, osc) == osc_dispatch_match(flush_print(p0), osc)

(* Performer::perform *)
perform(p, action) ==
    CASE action.k = "Print" -> performer_print(p, action.c)
      [] action.k = "Control" -> control(p, action.code)
      [] action.k = "DeviceControl" -> p
      [] action.k = "OperatingSystemCommand" -> osc_dispatch(p, action.osc)
      [] action.k = "Esc" -> esc_dispatch(p, action.esc)
      [] action.k = "CSI" -> csi_dispatch(p, action.csi)

RECURSIVE perform_all(_, _)
perform_all(p, actions) ==
    IF actions = <<>> \/ p.fault THEN p
    ELSE perform_all(perform(p, Head(actions)), Tail(actions))

----------------------------------------------------------------------------
(* Keyboard *)

(* the modifier suffix with the values of alt and ctrl exchanged *)
FunctionModifier_AltCtrlSwapped(mods) ==
    CASE ~mods.ctrl /\ ~mods.alt /\ ~mods.shift -> <<>>
      [] ~mods.ctrl /\ ~mods.alt /\ mods.shift -> <<";", "2">>
      [] mods.ctrl /\ ~mods.alt /\ ~mods.shift -> <<";", "3">>
      [] mods.ctrl /\ ~mods.alt /\ mods.shift -> <<";", "4">>
      [] ~mods.ctrl /\ mods.alt /\ ~mods.shift -> <<";", "5">>
      [] ~mods.ctrl /\ mods.alt /\ mods.shift -> <<";", "6">>
      [] mods.ctrl /\ mods.alt /\ ~mods.shift -> <<";", "7">>
      [] mods.ctrl /\ mods.alt /\ mods.shift -> <<";", "8">>

(* the modifier suffix of a function key *)
FunctionModifier(mods) ==
    CASE ~mods.ctrl /\ ~mods.alt /\ ~mods.shift -> <<>>
      [] ~mods.ctrl /\ ~mods.alt /\ mods.shift -> <<";", "2">>
      [] ~mods.ctrl /\ mods.alt /\ ~mods.shift -> <<";", "3">>
      [] ~mods.ctrl /\ mods.alt /\ mods.shift -> <<";", "4">>
      [] mods.ctrl /\ ~mods.alt /\ ~mods.shift -> <<";", "5">>
      [] mods.ctrl /\ ~mods.alt /\ mods.shift -> <<";", "6">>
      [] mods.ctrl /\ mods.alt /\ ~mods.shift -> <<";", "7">>
      [] mods.ctrl /\ mods.alt /\ mods.shift -> <<";", "8">>

FunctionSS3(n) ==
    CASE n = 1 -> <<"ESC", "O", "P">>
      [] n = 2 -> <<"ESC", "O", "Q">>
      [] n = 3 -> <<"ESC", "O", "R">>
      [] n = 4 -> <<"ESC", "O", "S">>

FunctionIntro(n) ==
    CASE n = 1 -> <<"ESC", "[", "1", "1">>
      [] n = 2 -> <<"ESC", "[", "1", "2">>
      [] n = 3 -> <<"ESC", "[", "1", "3">>
      [] n = 4 -> <<"ESC", "[", "1", "4">>
      [] n = 5 -> <<"ESC", "[", "1", "5">>
      [] n = 6 -> <<"ESC", "[", "1", "7">>
      [] n = 7 -> <<"ESC", "[", "1", "8">>
      [] n = 8 -> <<"ESC", "[", "1", "9">>
      [] n = 9 -> <<"ESC", "[", "2", "0">>
      [] n = 10 -> <<"ESC", "[", "2", "1">>
      [] n = 11 -> <<"ESC", "[", "2", "3">>
      [] n = 12 -> <<"ESC", "[", "2", "4">>

(* how the match on the key ends before anything is written: "Panic" for   *)
(* unreachable!, "Err" for bail!, "None" when it yields the bytes to send  *)
KeyFault(key, mods) ==
    IF key.k /= "Function" THEN "None"
    ELSE IF FunctionModifier(mods) = <<>> /\ key.n < 5
            THEN IF key.n \in 1 .. 4 THEN "None" ELSE "Panic"
            ELSE IF key.n \in 1 .. 12 THEN "None" ELSE "Err"

(* the character with the given code, for the codes Ctrl makes of "a" and "b" *)
ByteChar(n) ==
    CASE n = 1 -> "^A" [] n = 2 -> "^B" [] n = 33 -> "!" [] n = 34 -> "\""

(* the bytes key_down sends for a key; mods is a record of booleans *)
KeyEncoding(t, key, mods) ==
    CASE key.k = "Char" /\ mods.alt -> <<"ESC", key.c>>
      [] key.k = "Char" /\ mods.ctrl /\ mods.shift /\ CharByte(key.c) > 64 ->
             <<ByteChar(CharByte(key.c) - 64)>>
      [] key.k = "Char" /\ mods.ctrl /\ CharByte(key.c) > 96 ->
             <<ByteChar(CharByte(key.c) - 96)>>
      [] key.k = "Char" -> <<key.c>>
      [] key.k = "Enter" -> <<"\r">>
      [] key.k = "UpArrow" /\ mods.alt -> <<"ESC", "ESC", "[", "A">>
      [] key.k = "DownArrow" /\ mods.alt -> <<"ESC", "ESC", "[", "B">>
      [] key.k = "UpArrow" /\ t.application_cursor_keys -> <<"ESC", "O", "A">>
      [] key.k = "DownArrow" /\ t.application_cursor_keys -> <<"ESC", "O", "B">>
      [] key.k = "UpArrow" -> <<"ESC", "[", "A">>
      [] key.k = "DownArrow" -> <<"ESC", "[", "B">>
      [] key.k \in {"PageUp", "PageDown"} /\ mods.shift -> <<>>
      [] key.k = "PageUp" -> <<"ESC", "[", "5", "~">>
      [] key.k = "PageDown" -> <<"ESC", "[", "6", "~">>
      [] key.k = "Function" ->
             IF FunctionModifier(mods) = <<>> /\ key.n < 5 THEN FunctionSS3(key.n)
             ELSE FunctionIntro(key.n) \o FunctionModifier(mods) \o <<"~">>
      [] key.k = "Shift" -> <<>>

(* key_down sending to_send without the closing set_scroll_viewport(0) *)
key_send_KeepViewport(h, t1, to_send) ==
    [host |-> IF to_send /= <<>> THEN HostWrite(h, to_send) ELSE h,
     t |-> t1,
     ok |-> to_send = <<>> \/ WriteOk(h), panic |-> FALSE]

(* what key_down does once the match has yielded to_send *)
key_send(h, t1, to_send) ==
    IF to_send /= <<>> /\ ~WriteOk(h)
       THEN [host |-> HostWrite(h, to_send), t |-> t1, ok |-> FALSE, panic |-> FALSE]
       ELSE [host |-> IF to_send /= <<>> THEN HostWrite(h, to_send) ELSE h,
             t |-> IF to_send /= <<>> /\ t1.viewport_offset /= 0
                      THEN set_scroll_viewport(t1, 0) ELSE t1,
             ok |-> TRUE, panic |-> FALSE]

(* key_down: [t, host, ok, panic]; ok is FALSE when the Result is an Err,  *)
(* panic is TRUE when the call does not return                             *)
key_down(t, h, key, mods) ==
    IF KeyFault(key, mods) /= "None"
       THEN [host |-> h, t |-> t, ok |-> FALSE, panic |-> KeyFault(key, mods) = "Panic"]
       ELSE key_send(h,
                     IF key.k = "PageUp" /\ mods.shift
                        THEN scroll_viewport(t, -Screen(t).physical_rows)
                        ELSE IF key.k = "PageDown" /\ mods.shift
                                THEN scroll_viewport(t, Screen(t).physical_rows)
                                ELSE t,
                     KeyEncoding(t, key, mods))

NoMods == [ctrl |-> FALSE, alt |-> FALSE, shift |-> FALSE]

----------------------------------------------------------------------------
(* Mouse *)

is_double_click_word(s) ==
    IF Len(s) > 1 THEN TRUE
    ELSE IF Len(s) = 1
         THEN s[1] \notin {" ", "\t", "\n", "{", "[", "}", "]", "(", ")", "\"", "'"}
         ELSE FALSE

(* Line::compute_double_click_range: the run of word cells around the      *)
(* clicked column; wrap tells whether its last cell is marked wrapped.     *)
compute_double_click_range(line, click_col) ==
    LET n == Len(line.cells)
        IsWord(i) == is_double_click_word(line.cells[i + 1].text)
        Run(a, b) == \A i \in a .. b : IsWord(i)
        uppers == {u \in click_col .. n : Run(click_col, u - 1)}
        upper == CHOOSE u \in uppers : \A v \in uppers : v <= u
        lowers == {l \in 0 .. Min(click_col, n) : Run(l, Min(click_col, n - 1))}
        lower == IF lowers = {} THEN click_col
                 ELSE CHOOSE l \in lowers : \A v \in lowers : l <= v
    IN  [start |-> lower, end |-> upper,
         wrap |-> upper > lower /\ line.cells[upper].attrs.wrapped]

(* usize subtraction of one as a release build computes it *)
wrapping_sub1(x) == IF x = 0 THEN USIZE_MAX ELSE x - 1

(* LastMouseClick::new / add: a press of the same button soon after the    *)
(* last one extends the streak                                             *)
next_click(lmc, button, soon) ==
    IF IsSome(lmc) /\ Unwrap(lmc).button = button /\ soon
       THEN Some([button |-> button, streak |-> Min(Unwrap(lmc).streak + 1, 4)])
       ELSE Some([button |-> button, streak |-> 1])

ClickStreak(t) == IF IsSome(t.last_mouse_click) THEN Unwrap(t.last_mouse_click).streak ELSE 0

mouse_single_click_left(t, h, event) ==
    TH([t EXCEPT !.selection_range = None,
                 !.selection_start =
                     Some(SelectionCoordinate(event.x, event.y - t.viewport_offset))],
       [h EXCEPT !.clipboard = None])

mouse_double_click_left(t, h, event) ==
    LET y == event.y - t.viewport_offset
        s == Screen(t)
        idx == scrollback_or_visible_row(s, y)
        first == compute_double_click_range(s.lines[idx + 1], event.x)
        (* continue the scan on the following lines while they end wrapped *)
        Cont[y_cont \in idx .. Len(s.lines)] ==
            IF y_cont = idx
               THEN [end |-> SelectionCoordinate(wrapping_sub1(first.end), y), go |-> first.wrap]
            ELSE IF ~Cont[y_cont - 1].go \/ y_cont >= Len(s.lines) THEN
                 [end |-> Cont[y_cont - 1].end, go |-> FALSE]
            ELSE LET r == compute_double_click_range(s.lines[y_cont + 1], 0)
                 IN  IF r.wrap
                        THEN [end |-> SelectionCoordinate(r.end - 1, y + (y_cont - idx)),
                              go |-> TRUE]
                     ELSE IF r.end > r.start
                        THEN [end |-> SelectionCoordinate(r.end - 1, y + (y_cont - idx)),
                              go |-> FALSE]
                     ELSE [end |-> Cont[y_cont - 1].end, go |-> FALSE]
        range == SelectionRange(SelectionCoordinate(first.start, y), Cont[Len(s.lines)].end)
        t1 == dirty_selection_lines([t EXCEPT !.selection_start = Some(range.start),
                                              !.selection_range = Some(range)])
    IN  TH(t1, [h EXCEPT !.clipboard = Some(get_selection_text(t1))])

mouse_triple_click_left(t, h, event) ==
    LET y == event.y - t.viewport_offset
        t1 == dirty_selection_lines(
                 [t EXCEPT !.selection_start = Some(SelectionCoordinate(event.x, y)),
                           !.selection_range =
                               Some(SelectionRange(SelectionCoordinate(0, y),
                                                   SelectionCoordinate(USIZE_MAX, y)))])
    IN  TH(t1, [h EXCEPT !.clipboard = Some(get_selection_text(t1))])

mouse_press_left(t, h, event) ==
    LET t1 == dirty_selection_lines([t EXCEPT !.current_mouse_button = "Left"])
    IN  CASE ClickStreak(t1) = 1 -> mouse_single_click_left(t1, h, event)
          [] ClickStreak(t1) = 2 -> mouse_double_click_left(t1, h, event)
          [] ClickStreak(t1) = 3 -> mouse_triple_click_left(t1, h, event)
          [] OTHER -> TH([t1 EXCEPT !.selection_range = None, !.selection_start = None],
                         [h EXCEPT !.clipboard = None])

mouse_button_release(t, h, event) ==
    IF t.current_mouse_button /= "None"
       THEN TH([t EXCEPT !.current_mouse_button = "None"],
               IF t.sgr_mouse
                  THEN HostWrite(h, <<"ESC", "[", "<", "3", ";">> \o ToDecimal(event.x + 1)
                                    \o <<";">> \o ToDecimal(event.y + 1) \o <<"m">>)
                  ELSE h)
       ELSE TH(t, h)

mouse_release_left(t, h, event) ==
    LET t1 == [t EXCEPT !.current_mouse_button = "None"]
    IN  IF ClickStreak(t1) = 1
           THEN LET text == get_selection_text(t1)
                IN  TH(t1, IF text /= <<>> THEN [h EXCEPT !.clipboard = Some(text)] ELSE h)
           ELSE mouse_button_release(t1, h, event)

mouse_drag_left(t, event) ==
    LET t1 == dirty_selection_lines(t)
        end == SelectionCoordinate(event.x, event.y - t1.viewport_offset)
        sel == IF IsSome(t1.selection_range)
                  THEN selection_extend(Unwrap(t1.selection_range), end)
                  ELSE selection_extend(
                          selection_start_at(IF IsSome(t1.selection_start)
                                                THEN Unwrap(t1.selection_start) ELSE end),
                          end)
    IN  dirty_selection_lines([t1 EXCEPT !.selection_range = Some(sel)])

SgrReport(button, event, final) ==
    <<"ESC", "[", "<">> \o ToDecimal(button) \o <<";">> \o ToDecimal(event.x + 1)
    \o <<";">> \o ToDecimal(event.y + 1) \o <<final>>

(* a wheel that scrolls the viewport on the alternate screen too *)
mouse_wheel_AlwaysScroll(t, h, event) ==
    IF t.sgr_mouse
       THEN TH(t, HostWrite(h, SgrReport(IF event.button = "WheelUp" THEN 64 ELSE 65,
                                         event, "M")))
       ELSE TH(scroll_viewport(t, IF event.button = "WheelUp" THEN -event.amount
                                  ELSE event.amount), h)

mouse_wheel(t, h, event) ==
    LET up == (event.button = "WheelUp")
        report_button == IF up THEN 64 ELSE 65
        scroll_delta == IF up THEN -event.amount ELSE event.amount
        key == IF up THEN [k |-> "UpArrow"] ELSE [k |-> "DownArrow"]
    IN  IF t.sgr_mouse THEN TH(t, HostWrite(h, SgrReport(report_button, event, "M")))
        ELSE IF is_alt_screen_active(t)
             THEN LET r == key_down(t, h, key, NoMods) IN TH(r.t, r.host)
        ELSE TH(scroll_viewport(t, scroll_delta), h)

mouse_button_press(t, h, event) ==
    LET t1 == [t EXCEPT !.current_mouse_button = event.button]
    IN  IF event.button = "Left" /\ t1.sgr_mouse
           THEN TH(t1, HostWrite(h, SgrReport(0, event, "M")))
           ELSE TH(t1, h)

mouse_move(t, h, event) ==
    IF t.current_mouse_button = "Left" /\ t.button_event_mouse /\ t.sgr_mouse
       THEN TH(t, HostWrite(h, SgrReport(32, event, "M")))
       ELSE TH(t, h)

(* An event is [kind, button, x, y, shift, soon, amount] *)
mouse_event(t0, h, event0) ==
    LET event == [event0 EXCEPT !.y = Min(@, Screen(t0).physical_rows - 1),
                                !.x = Min(@, Screen(t0).physical_cols - 1)]
        new_position == [x |-> event.x, y |-> event.y]
        t1 == IF new_position /= t0.mouse_position
                 THEN recompute_highlight([t0 EXCEPT !.mouse_position = new_position])
                 ELSE t0
        send_event == t1.sgr_mouse /\ ~event.shift
        t == IF event.kind = "Press"
                THEN [t1 EXCEPT !.last_mouse_click =
                                    next_click(@, event.button, event.soon)]
                ELSE t1
    IN  IF ~send_event /\ event.kind = "Press" /\ event.button = "Left"
           THEN mouse_press_left(t, h, event)
        ELSE IF ~send_event /\ event.kind = "Release" /\ event.button = "Left"
           THEN mouse_release_left(t, h, event)
        ELSE IF ~send_event /\ event.kind = "Move" /\ t.current_mouse_button = "Left"
           THEN TH(mouse_drag_left(t, event), h)
        ELSE IF event.kind = "Press" /\ event.button \in {"WheelUp", "WheelDown"}
           THEN mouse_wheel(t, h, event)
        ELSE IF event.kind = "Press" THEN mouse_button_press(t, h, event)
        ELSE IF event.kind = "Release" THEN mouse_button_release(t, h, event)
        ELSE mouse_move(t, h, event)

----------------------------------------------------------------------------
(* The Terminal as a state machine.                                        *)
(*                                                                         *)
(* performer is None between advance_bytes calls and Some(print) during a  *)
(* call.  advance_bytes creates the Performer, hands it every action the   *)
(* parser recognizes, and drops it when the bytes are used up; a step that *)
(* performs an action while no call is in progress begins a call.          *)

ParserNew == [st |-> "Ground", params |-> <<>>, cur |-> None, utf8 |-> <<>>]

NoResult == [write_failed |-> FALSE, call |-> "none", returned |-> "Unit"]

NoRef == [active |-> FALSE]

(* no mux connection *)
NoWire == [open |-> FALSE]

(* no Mux has been set up *)
NoMux == [running |-> FALSE]

(* the Performer of the call in progress, or the fresh one of a new call *)
CurrentPerformer ==
    IF IsSome(performer) THEN Performer(state, host, Unwrap(performer))
    ELSE Performer(state, [host EXCEPT !.write_failed = FALSE], None)

(* the Performer p holds &mut state and &mut host: what it did to them is  *)
(* what the terminal and the host are                                      *)
(* after the callback.  A panic in a handler unwinds advance_bytes: the     *)
(* Performer is dropped and the call does not return.                      *)
PerformerLeaves(p) ==
    /\ state' = p.t
    /\ host' = p.host
    /\ performer' = IF p.fault THEN None ELSE Some(p.print)
    /\ result' = IF p.fault
                    THEN [write_failed |-> p.host.write_failed, call |-> "advance_bytes",
                          returned |-> "Panic"]
                    ELSE result

(* no call on this terminal has panicked *)
Running == result.returned /= "Panic"

Perform(action, bound) ==
    /\ steps < bound
    /\ Running
    /\ CursorInBounds(state)
    /\ PerformerLeaves(perform(CurrentPerformer, action))
    /\ last' = action
    /\ steps' = steps + 1
    /\ fed' = IF IsSome(fed) THEN Some(Append(Unwrap(fed), action)) ELSE fed
    /\ UNCHANGED <<parser, ref, wire, mux>>

(* the end of advance_bytes: the Performer is dropped, which flushes the   *)
(* pending print batch; the call returns ()                                *)
PerformerDropped(p) ==
    /\ state' = p.t
    /\ host' = p.host
    /\ result' = [write_failed |-> p.host.write_failed, call |-> "advance_bytes",
                  returned |-> "Unit"]
    /\ performer' = None

DropPerformer ==
    /\ IsSome(performer)
    /\ Running
    /\ CursorInBounds(state)
    /\ PerformerDropped(flush_print(CurrentPerformer))
    /\ last' = [k |-> "Drop", flushed |-> Unwrap(performer)]
    /\ UNCHANGED <<parser, steps, ref, fed, wire, mux>>

Idle == performer = None /\ Running /\ CursorInBounds(state)

Resize(rows, cols, bound) ==
    /\ steps < bound
    /\ Idle
    /\ state' = resize(state, rows, cols)
    /\ last' = [cols |-> cols, cursor |-> state.cursor, viewport_offset |-> state.viewport_offset, rows |-> rows,
                 k |-> "Resize"]
    /\ steps' = steps + 1
    /\ fed' = IF IsSome(fed)
                 THEN Some(Append(Unwrap(fed), [cols |-> cols, rows |-> rows, k |-> "Resize"]))
              ELSE fed
    /\ UNCHANGED <<parser, performer, host, result, ref, wire, mux>>

(* TerminalState::scroll_viewport called by the owner of the terminal *)
ScrollViewport(deltas, bound) ==
    \E delta \in deltas :
        /\ steps < bound
        /\ Idle
        /\ state' = scroll_viewport(state, delta)
        /\ last' = [viewport_offset |-> state.viewport_offset, delta |-> delta,
                    k |-> "ScrollViewport"]
        /\ steps' = steps + 1
        /\ UNCHANGED <<parser, performer, host, result, ref, fed, wire, mux>>

(* the subtraction click_range.end - 1 of mouse_double_click_left with     *)
(* click_range.end = 0: a double click on column 0 of a cell that is not   *)
(* a word cell                                                             *)
double_click_underflows(t0, event0) ==
    /\ ~(t0.sgr_mouse /\ ~event0.shift)
    /\ event0.kind = "Press" /\ event0.button = "Left"
    /\ Unwrap(next_click(t0.last_mouse_click, event0.button, event0.soon)).streak = 2
    /\ compute_double_click_range(
           Screen(t0).lines[scrollback_or_visible_row(
               Screen(t0),
               Min(event0.y, Screen(t0).physical_rows - 1) - t0.viewport_offset) + 1],
           Min(event0.x, Screen(t0).physical_cols - 1)).end = 0

(* panic: the build checks overflow and the subtraction underflows;        *)
(* without the checks the subtraction wraps and the call returns r         *)
MouseEventReturns(r, panic) ==
    /\ state' = IF panic THEN state ELSE r.t
    /\ host' = IF panic THEN host ELSE r.host
    /\ result' = IF panic
                    THEN [write_failed |-> FALSE, call |-> "mouse_event", returned |-> "Panic"]
                    ELSE result

MouseEvent(event, bound) ==
    /\ steps < bound
    /\ Idle
    /\ \E overflow_checks \in BOOLEAN :
          MouseEventReturns(mouse_event(state, [host EXCEPT !.write_failed = FALSE], event),
                            overflow_checks /\ double_click_underflows(state, event))
    /\ last' = [viewport_offset |-> state.viewport_offset, k |-> "Mouse", event |-> event]
    /\ steps' = steps + 1
    /\ UNCHANGED <<parser, performer, ref, fed, wire, mux>>

KeyDownReturns(r) ==
    /\ state' = r.t
    /\ host' = r.host
    /\ result' = [write_failed |-> r.host.write_failed,
                  call |-> "key_down",
                  returned |-> IF r.panic THEN "Panic" ELSE IF r.ok THEN "Ok" ELSE "Err"]

KeyDown(key, mods, bound) ==
    /\ steps < bound
    /\ Idle
    /\ KeyDownReturns(key_down(state, [host EXCEPT !.write_failed = FALSE], key, mods))
    /\ last' = [viewport_offset |-> state.viewport_offset, k |-> "Key", mods |-> mods,
                 key |-> key]
    /\ steps' = steps + 1
    /\ UNCHANGED <<parser, performer, ref, fed, wire, mux>>

(* the renderer has painted: TerminalState::clean_dirty_lines *)
clean_dirty_lines(t) ==
    LET s == Screen(t)
    IN  SetScreen(t, [s EXCEPT !.lines = [i \in 1 .. Len(s.lines) |-> line_clear_dirty(s.lines[i])]])

HasDirty(t) == \E i \in 1 .. Len(Screen(t).lines) : Screen(t).lines[i].dirty

CleanDirtyLines(bound) ==
    /\ steps < bound
    /\ Idle
    /\ HasDirty(state)
    /\ state' = clean_dirty_lines(state)
    /\ last' = [k |-> "Clean"]
    /\ steps' = steps + 1
    /\ UNCHANGED <<parser, performer, host, result, ref, fed, wire, mux>>

(* the pty's other end goes away: from now on the writer returns errors *)
HostBreaks(bound) ==
    /\ steps < bound
    /\ ~host.broken
    /\ host' = [host EXCEPT !.broken = TRUE]
    /\ last' = [k |-> "HostBreaks"]
    /\ steps' = steps + 1
    /\ UNCHANGED <<state, parser, performer, result, ref, fed, wire, mux>>

----------------------------------------------------------------------------
(* Inputs *)

PrintAction(c) == [c |-> c, k |-> "Print"]
ControlAction(code) == [code |-> code, k |-> "Control"]
EscAction(esc) == [k |-> "Esc", esc |-> esc]
OscAction(osc) == [k |-> "OperatingSystemCommand", osc |-> osc]
CsiCursor(cursor) == [csi |-> [cursor |-> cursor, k |-> "Cursor"], k |-> "CSI"]
CsiEdit(edit) == [csi |-> [edit |-> edit, k |-> "Edit"], k |-> "CSI"]
CsiMode(mode) == [csi |-> [mode |-> mode, k |-> "Mode"], k |-> "CSI"]
CsiSgr(sgr) == [csi |-> [sgr |-> sgr, k |-> "Sgr"], k |-> "CSI"]
CsiDevice(dev) == [csi |-> [dev |-> dev, k |-> "Device"], k |-> "CSI"]
CsiWindow(window) == [csi |-> [window |-> window, k |-> "Window"], k |-> "CSI"]
CsiUnspecified == [csi |-> [k |-> "Unspecified"], k |-> "CSI"]
CsiMouse == [csi |-> [k |-> "Mouse"], k |-> "CSI"]

ControlCodes == {"LineFeed", "CarriageReturn", "Backspace", "HorizontalTab", "Bell"}

EscCodes ==
    {"ReverseIndex", "Index", "NextLine", "HorizontalTabSet", "DecSaveCursorPosition",
     "DecRestoreCursorPosition", "DecApplicationKeyPad", "DecNormalKeyPad",
     "DecLineDrawing", "AsciiCharacterSet", "StringTerminator", "FullReset"}

(* Esc codes the engine has no handler for *)
UnhandledEscCodes == {"FullReset"}

CountChoices == {1, 2}

CursorOps ==
    {[n |-> n, op |-> o] :
        o \in {"Left", "Right", "Up", "Down", "NextLine", "PrecedingLine",
               "LinePositionBackward", "LinePositionForward"}, n \in CountChoices}
    \cup {[n |-> n, op |-> "LinePositionAbsolute"] : n \in {0, 1, 3}}
    \cup {[line |-> l, col |-> c, op |-> "Position"] : l \in {1, 3}, c \in {1, 3}}
    \cup {[col |-> c, op |-> "CharacterAbsolute"] : c \in {1, 4}}
    \cup {[top |-> a, op |-> "SetTopAndBottomMargins", bottom |-> b] :
            a \in {1, 2}, b \in {1, 2, 4}}
    \cup {[op |-> o] : o \in {"SaveCursor", "RestoreCursor", "RequestActivePositionReport",
                              "CursorStyle"}}
    \cup {[n |-> 1, op |-> "ForwardTabulation"]}

EraseInLineKinds == {"EraseToEndOfLine", "EraseToStartOfLine", "EraseLine"}
EraseInDisplayKinds ==
    {"EraseToEndOfDisplay", "EraseToStartOfDisplay", "EraseDisplay", "EraseScrollback"}

EditOps ==
    {[n |-> n, op |-> o] :
        o \in {"DeleteCharacter", "DeleteLine", "EraseCharacter", "InsertCharacter",
               "InsertLine", "ScrollDown", "ScrollUp", "Repeat"}, n \in {1}}
    \cup {[erase |-> e, op |-> "EraseInLine"] : e \in EraseInLineKinds}
    \cup {[erase |-> e, op |-> "EraseInDisplay"] : e \in EraseInDisplayKinds}

DecModeCodes ==
    {"BracketedPaste", "EnableAlternateScreen", "ApplicationCursorKeys", "ShowCursor",
     "ButtonEventMouse", "SGRMouse", "ClearAndEnableAlternateScreen", "StartBlinkingCursor",
     "Unspecified"}

ModeOps ==
    {[action |-> a, code |-> c] :
        a \in {"SetDecPrivateMode", "ResetDecPrivateMode"}, c \in DecModeCodes}
    \cup {[action |-> a, code |-> "Unspecified"] :
            a \in {"SaveDecPrivateMode", "RestoreDecPrivateMode"}}
    \cup {[action |-> a, code |-> c] :
            a \in {"SetMode", "ResetMode"}, c \in {"Insert", "Unspecified"}}

(* the modes the decoder could not name *)
UnspecifiedModeOps == {m \in ModeOps : m.code = "Unspecified"}

SgrOps ==
    {[op |-> "Reset"], [v |-> "Red", op |-> "Foreground"], [v |-> "Bold", op |-> "Intensity"]}

DeviceOps ==
    {"RequestPrimaryDeviceAttributes", "RequestSecondaryDeviceAttributes", "StatusReport",
     "SoftReset", "DeviceAttributes"}

WindowOps == {[op |-> "ReportTextAreaSizeCells"], [op |-> "Iconify"]}

OscOps ==
    {[title |-> "t1", k |-> "SetWindowTitle"],
     [link |-> Some("L1"), k |-> "SetHyperlink"],
     [link |-> None, k |-> "SetHyperlink"],
     [k |-> "Unspecified"]}

(* actions that make the engine write a response to the host *)
IsQuery(a) ==
    /\ a.k = "CSI"
    /\ \/ a.csi.k = "Device" /\ a.csi.dev \in {"RequestPrimaryDeviceAttributes",
                                               "RequestSecondaryDeviceAttributes",
                                               "StatusReport"}
       \/ a.csi.k = "Window" /\ a.csi.window.op = "ReportTextAreaSizeCells"
       \/ a.csi.k = "Cursor" /\ a.csi.cursor.op = "RequestActivePositionReport"

MouseEvents(xs, ys) ==
    {[x |-> x, y |-> y, kind |-> kd, shift |-> FALSE, button |-> "Left", soon |-> sn,
      amount |-> 0] :
        kd \in {"Press", "Release", "Move"}, x \in xs, y \in ys, sn \in {FALSE}}

WheelEvents ==
    {[x |-> 0, y |-> 0, kind |-> "Press", shift |-> FALSE, button |-> b, soon |-> FALSE,
      amount |-> 1] : b \in {"WheelUp", "WheelDown"}}

Keys == {[c |-> "a", k |-> "Char"], [k |-> "UpArrow"], [k |-> "PageUp"], [k |-> "Shift"]}

----------------------------------------------------------------------------
(* Steps of the engine, by handler *)

PrintChars(chars, bound) == \E c \in chars : Perform(PrintAction(c), bound)

Control(codes, bound) == \E code \in codes : Perform(ControlAction(code), bound)

EscDispatch(codes, bound) == \E esc \in codes : Perform(EscAction(esc), bound)

OscDispatch(oscs, bound) == \E osc \in oscs : Perform(OscAction(osc), bound)

CsiCursorDispatch(ops, bound) ==
    \E cursor \in ops :
        /\ IsQuery(CsiCursor(cursor)) => Len(host.written) < MaxReplies
        /\ Perform(CsiCursor(cursor), bound)

CsiEditDispatch(ops, bound) == \E edit \in ops : Perform(CsiEdit(edit), bound)

CsiModeDispatch(ops, bound) == \E mode \in ops : Perform(CsiMode(mode), bound)

CsiSgrDispatch(ops, bound) == \E sgr \in ops : Perform(CsiSgr(sgr), bound)

CsiDeviceDispatch(ops, bound) ==
    \E dev \in ops :
        /\ IsQuery(CsiDevice(dev)) => Len(host.written) < MaxReplies
        /\ Perform(CsiDevice(dev), bound)

CsiWindowDispatch(ops, bound) ==
    \E window \in ops :
        /\ IsQuery(CsiWindow(window)) => Len(host.written) < MaxReplies
        /\ Perform(CsiWindow(window), bound)

CsiOther(bound) == \E a \in {CsiUnspecified, CsiMouse} : Perform(a, bound)

ResizeTo(rowset, colset, bound) == \E r \in rowset, c \in colset : Resize(r, c, bound)

Mouse(events, bound) == \E e \in events : MouseEvent(e, bound)

Key(keys, bound) ==
    \E key \in keys, shift \in BOOLEAN :
        /\ Len(host.written) < MaxReplies
        /\ KeyDown(key, [NoMods EXCEPT !.shift = shift], bound)

----------------------------------------------------------------------------
(* The engine under every kind of action *)

(* Terminal::new *)
NewTerminal(rowset, colset, sbset) ==
    \E r \in rowset, c \in colset, sb \in sbset : state = TerminalStateNew(r, c, sb)

InitWith(rowset, colset, sbset) ==
    /\ NewTerminal(rowset, colset, sbset)
    /\ parser = ParserNew
    /\ performer = None
    /\ host = HostNew
    /\ result = NoResult
    /\ last = [k |-> "New"]
    /\ steps = 0
    /\ ref = NoRef
    /\ fed = None
    /\ wire = NoWire
    /\ mux = NoMux

(* the same, recording the actions performed *)
InitFed(rowset, colset, sbset) ==
    /\ NewTerminal(rowset, colset, sbset)
    /\ parser = ParserNew
    /\ performer = None
    /\ host = HostNew
    /\ result = NoResult
    /\ last = [k |-> "New"]
    /\ steps = 0
    /\ ref = NoRef
    /\ fed = Some(<<>>)
    /\ wire = NoWire
    /\ mux = NoMux

Init == InitWith({3}, {3}, {1})

Next ==
    \/ PrintChars({"a"}, MaxSteps)
    \/ Control(ControlCodes, MaxSteps)
    \/ EscDispatch(EscCodes, MaxSteps)
    \/ OscDispatch(OscOps, MaxSteps)
    \/ CsiCursorDispatch(CursorOps, MaxSteps)
    \/ CsiEditDispatch(EditOps, MaxSteps)
    \/ CsiModeDispatch(ModeOps, MaxSteps)
    \/ CsiSgrDispatch(SgrOps, MaxSteps)
    \/ CsiDeviceDispatch(DeviceOps, MaxSteps)
    \/ CsiWindowDispatch(WindowOps, MaxSteps)
    \/ CsiOther(MaxSteps)
    \/ DropPerformer
    \/ ResizeTo(RowChoices, ColChoices, MaxSteps)
    \/ Mouse(MouseEvents({0, 2}, {0, 1}) \cup WheelEvents, MaxSteps)
    \/ Key(Keys, MaxSteps)
    \/ CleanDirtyLines(MaxSteps)
    \/ HostBreaks(MaxSteps)

Spec == Init /\ [][Next]_vars

----------------------------------------------------------------------------
(* C2: after any sequence of actions and resizes the cursor is inside the  *)
(* screen: 0 <= cursor.x <= physical_cols-1 and 0 <= cursor.y <=           *)
(* physical_rows-1.                                                        *)
C2_CursorInBounds == CursorInBounds(state)

(* C9: when the host writer returned an error while advance_bytes wrote a  *)
(* query response, the call returns an error to its caller.                *)
C9_WriteFailurePropagates ==
    (result.call = "advance_bytes" /\ result.write_failed) => result.returned = "Err"

(* the actions the decoder could not name, or the engine has no handler for *)
UnknownAction(a) ==
    /\ "k" \in DOMAIN a
    /\ \/ a = CsiUnspecified
       \/ a.k = "Esc" /\ a.esc \in UnhandledEscCodes
       \/ a.k = "OperatingSystemCommand" /\ a.osc.k = "Unspecified"
       \/ a.k = "CSI" /\ a.csi.k = "Mode" /\ a.csi.mode \in UnspecifiedModeOps

NoPendingPrint(pf) == pf = None \/ pf = Some(None)

(* C10: applying an unknown CSI, an unhandled Esc code, an unspecified OSC *)
(* or a Set/Reset/Save/Restore of an unspecified mode, with no print batch *)
(* pending, leaves the whole terminal state unchanged, writes nothing to   *)
(* the host (so no write of this step can fail) and leaves no print batch  *)
(* behind.                                                                 *)
C10_UnknownVariantsIgnored ==
    [][(steps' = steps + 1 /\ UnknownAction(last') /\ NoPendingPrint(performer))
          => /\ state' = state
             /\ host'.written = host.written
             /\ host'.title = host.title
             /\ host'.clipboard = host.clipboard
             /\ host'.write_failed => host.write_failed
             /\ performer' = Some(None)]_vars

C10_Witness ==
    /\ UnknownAction(last)
    /\ last.k = "CSI"
    /\ last.csi.k = "Mode"
    /\ last.csi.mode.action = "SetMode"
    /\ state.cursor.y > 0
    /\ performer = Some(None)

----------------------------------------------------------------------------
(* What an observer sees of the active screen *)

VisibleLine(t, y) == Screen(t).lines[phys_row(Screen(t), y) + 1]

CellAt(t, x, y) == VisibleLine(t, y).cells[x + 1]

RowCells(t, y) == VisibleLine(t, y).cells

ScrollbackLen(s) == Len(s.lines) - s.physical_rows

(* the batch of printable characters the Performer holds, "" when none *)
PendingPrint(pf) == IF IsSome(pf) /\ IsSome(Unwrap(pf)) THEN Unwrap(Unwrap(pf)) ELSE <<>>

(* a non-empty run of single-width characters *)
PlainRun(s) == s /= <<>> /\ \A i \in 1 .. Len(s) : CharWidth(s[i]) = 1

(* this step drops the Performer, which flushes what it holds *)
DropStep == IsSome(performer) /\ performer' = None

----------------------------------------------------------------------------
(* Printing: runs of characters, line feeds, carriage returns, insert mode *)
(* and cursor position reports, on a narrow and on a wide screen.          *)

PrintCols == {2, 12}

InitPrint == InitWith({2}, PrintCols, {1})

PrintCursorOps ==
    {[col |-> 11, op |-> "CharacterAbsolute"], [op |-> "RequestActivePositionReport"]}

InsertModeOps == {[action |-> a, code |-> "Insert"] : a \in {"SetMode", "ResetMode"}}

NextPrint ==
    \/ PrintChars(Letters, MaxPrintSteps)
    \/ Control({"LineFeed", "CarriageReturn"}, MaxPrintSteps)
    \/ CsiCursorDispatch(PrintCursorOps, MaxPrintSteps)
    \/ CsiModeDispatch(InsertModeOps, MaxPrintSteps)
    \/ DropPerformer

SpecPrint == InitPrint /\ [][NextPrint]_vars

(* C3: with insert mode off, a run of single-width characters whose last   *)
(* one is written in the last column leaves the cursor on the same row in  *)
(* the last column with wrap_next set, and no line was fed or scrolled;    *)
(* the move to column 0 of the next row (a scroll at the bottom of the     *)
(* scroll region) is made when the next cluster is written, right before   *)
(* it; buffering a character or dropping an empty Performer while          *)
(* wrap_next is set changes nothing.                                       *)
C3_DeferredWrap ==
    [][LET pr == PendingPrint(performer)
           x == state.cursor.x
           y == state.cursor.y
           rows == Screen(state).physical_rows
           cols == Screen(state).physical_cols
           bottom == (y = state.scroll_region.end - 1)
           whole == (state.scroll_region = Range(0, rows))
       IN  /\ (DropStep /\ ~state.insert /\ ~state.wrap_next /\ PlainRun(pr)
                 /\ x + Len(pr) = cols)
              => /\ state'.cursor = [x |-> cols - 1, y |-> y]
                 /\ state'.wrap_next
                 /\ Len(Screen(state').lines) = Len(Screen(state).lines)
                 /\ \A r \in 0 .. rows - 1 :
                       r /= y => RowCells(state', r) = RowCells(state, r)
                 /\ \A c \in 0 .. cols - 1 :
                       IF c < x THEN CellAt(state', c, y) = CellAt(state, c, y)
                       ELSE CellAt(state', c, y).text = <<pr[c - x + 1]>>
           /\ (DropStep /\ ~state.insert /\ state.wrap_next /\ PlainRun(pr)
                 /\ Len(pr) = 1 /\ cols >= 2)
              => /\ state'.cursor.x = 1
                 /\ state'.cursor.y = IF bottom THEN y ELSE Min(y + 1, rows - 1)
                 /\ ~state'.wrap_next
                 /\ CellAt(state', 0, state'.cursor.y).text = pr
                 /\ ~bottom => /\ RowCells(state', y) = RowCells(state, y)
                               /\ Len(Screen(state').lines) = Len(Screen(state).lines)
                 /\ (bottom /\ whole /\ rows >= 2) =>
                       /\ RowCells(state', y - 1) = RowCells(state, y)
                       /\ Len(Screen(state').lines) =
                            Min(Len(Screen(state).lines) + 1,
                                rows + Screen(state).scrollback_size)
           /\ (state.wrap_next /\ steps' = steps + 1 /\ last'.k = "Print")
              => state' = state /\ PendingPrint(performer') = Append(pr, last'.c)
           /\ (state.wrap_next /\ DropStep /\ pr = <<>>) => state' = state
      ]_vars

(* a run has filled the last column of the bottom row, and the next        *)
(* character has scrolled the screen and stands in column 0                *)
C3_Witness ==
    /\ last.k = "Drop"
    /\ last.flushed = Some(<<"b">>)
    /\ ~state.insert
    /\ ScrollbackLen(Screen(state)) = 1
    /\ state.cursor = [x |-> 1, y |-> 1]
    /\ CellAt(state, 0, 1).text = <<"b">>
    /\ CellAt(state, 1, 0).text = <<"a">>
    /\ CellAt(state, 1, 0).attrs.wrapped

RequestReport == CsiCursor([op |-> "RequestActivePositionReport"])

(* C8: a RequestActivePositionReport makes the engine write, in the same   *)
(* step of the same advance call, one ActivePositionReport whose decoded   *)
(* line and column are cursor.y+1 and cursor.x+1 of the cursor as it is    *)
(* once the print batch pending before the request has been flushed.       *)
C8_PositionReportRoundTrip ==
    [][(steps' = steps + 1 /\ last' = RequestReport /\ ~host.broken)
          => LET flushed == flush_print(CurrentPerformer).t
                 report == host'.written[Len(host'.written)]
             IN  /\ Len(host'.written) = Len(host.written) + 1
                 /\ IsActivePositionReport(report)
                 /\ DecodeActivePositionReport(report) =
                       [line |-> flushed.cursor.y + 1, col |-> flushed.cursor.x + 1]
                 /\ state' = flushed
                 /\ performer' = Some(None)
      ]_vars

(* the request came right after a character printed in the eleventh column *)
(* of the second row: the report reads line 2, column 12                   *)
C8_Witness ==
    /\ last = RequestReport
    /\ host.written /= <<>>
    /\ host.written[Len(host.written)] = <<"ESC", "[", "2", ";", "1", "2", "R">>
    /\ state.cursor = [x |-> 11, y |-> 1]
    /\ CellAt(state, 10, 1).text = <<"a">>

----------------------------------------------------------------------------
(* The pen: SGR, hyperlinks and the cells printed with them *)

InitPen == InitWith({2}, {3}, {0})

HyperlinkOps == {osc \in OscOps : osc.k = "SetHyperlink"}

NextPen ==
    \/ PrintChars(Letters, MaxPenSteps)
    \/ CsiSgrDispatch(SgrOps, MaxPenSteps)
    \/ OscDispatch(HyperlinkOps, MaxPenSteps)
    \/ DropPerformer

SpecPen == InitPen /\ [][NextPen]_vars

SgrReset == CsiSgr([op |-> "Reset"])

(* C7: after Sgr::Reset the pen is the default pen in every field but      *)
(* hyperlink, which keeps the value it had right before the reset; a cell  *)
(* printed with a pen carries that pen's colours and link, so the cells    *)
(* printed after a reset carry default colours and the preserved link.     *)
C7_SgrResetKeepsHyperlink ==
    [][LET pr == PendingPrint(performer)
           x == state.cursor.x
           y == state.cursor.y
       IN  /\ (steps' = steps + 1 /\ last' = SgrReset)
              => /\ state'.pen = [DefaultAttributes EXCEPT !.hyperlink = state.pen.hyperlink]
                 /\ state'.pen.foreground = "Default"
                 /\ state'.pen.intensity = "Normal"
           /\ (DropStep /\ PlainRun(pr) /\ Len(pr) = 1 /\ ~state.wrap_next)
              => /\ CellAt(state', x, y).text = pr
                 /\ CellAt(state', x, y).attrs.foreground = state.pen.foreground
                 /\ CellAt(state', x, y).attrs.intensity = state.pen.intensity
                 /\ CellAt(state', x, y).attrs.hyperlink = state.pen.hyperlink
      ]_vars

(* a red linked "a", a reset, then "b": "b" has default colours and the link *)
C7_Witness ==
    /\ last.k = "Drop"
    /\ last.flushed = Some(<<"b">>)
    /\ CellAt(state, 0, 0).text = <<"a">>
    /\ CellAt(state, 0, 0).attrs.foreground = "Red"
    /\ CellAt(state, 0, 0).attrs.hyperlink = Some("L1")
    /\ CellAt(state, 1, 0).text = <<"b">>
    /\ CellAt(state, 1, 0).attrs.foreground = "Default"
    /\ CellAt(state, 1, 0).attrs.intensity = "Normal"
    /\ CellAt(state, 1, 0).attrs.hyperlink = Some("L1")
    /\ state.pen = [DefaultAttributes EXCEPT !.hyperlink = Some("L1")]

----------------------------------------------------------------------------
(* Selections made with the mouse, and erasing in the cursor's line *)

InitSel == InitWith({2}, {3}, {0})

(* presses and drags of the left button; no release, so every move drags *)
DragEvents(xs, ys) == {e \in MouseEvents(xs, ys) : e.kind /= "Release"}

EraseInLineOps == {[erase |-> e, op |-> "EraseInLine"] : e \in EraseInLineKinds}

NextSel ==
    \/ PrintChars({"a"}, MaxSelSteps)
    \/ Mouse(DragEvents({0, 2}, {0, 1}), MaxSelSteps)
    \/ CsiEditDispatch(EraseInLineOps, MaxSelSteps)
    \/ CsiCursorDispatch({[line |-> 2, col |-> 2, op |-> "Position"]}, MaxSelSteps)
    \/ DropPerformer

SpecSel == InitSel /\ [][NextSel]_vars

IsEraseInLine(a) == a.k = "CSI" /\ a.csi.k = "Edit" /\ a.csi.edit.op = "EraseInLine"

(* the erased columns of the cursor's row meet the selection's columns there *)
EraseMeetsSelection(t, erase) ==
    /\ IsSome(t.selection_range)
    /\ intersects_range(EraseInLineRange(t, erase),
                        cols_for_row(normalize(Unwrap(t.selection_range)), t.cursor.y))

(* C4: an EraseInLine whose erased columns meet the selection's columns on *)
(* the cursor's row leaves selection_range None and get_selection_text()   *)
(* empty; an EraseInLine that does not meet the selection leaves           *)
(* selection_range as it was.                                              *)
C4_EraseInLineSelection ==
    [][(steps' = steps + 1 /\ IsEraseInLine(last') /\ NoPendingPrint(performer)
          /\ IsSome(state.selection_range))
          => IF EraseMeetsSelection(state, last'.csi.edit.erase)
                THEN state'.selection_range = None /\ get_selection_text(state') = <<>>
                ELSE state'.selection_range = state.selection_range
      ]_vars

----------------------------------------------------------------------------
(* Selections made while the viewport is scrolled, and erasing the display *)

InitErase == InitWith({2}, {3}, {1})

EraseDisplayOps ==
    {[erase |-> "EraseDisplay", op |-> "EraseInDisplay"], [n |-> 1, op |-> "ScrollUp"]}

(* a press in column 0 and a drag to column 2, in either row *)
RowDragEvents ==
    {e \in DragEvents({0, 2}, {0, 1}) : (e.kind = "Press") <=> (e.x = 0)}

NextErase ==
    \/ Mouse(RowDragEvents \cup WheelEvents, MaxEraseSteps)
    \/ CsiEditDispatch(EraseDisplayOps, MaxEraseSteps)
    \/ CleanDirtyLines(MaxEraseSteps)
    \/ DropPerformer

SpecErase == InitErase /\ [][NextErase]_vars

IsEraseDisplay(a) == a = CsiEdit([erase |-> "EraseDisplay", op |-> "EraseInDisplay"])

(* the rows of the selection, first to last *)
SelectionRows(t) ==
    LET sel == normalize(Unwrap(t.selection_range)) IN sel.start.y .. sel.end.y

(* the rows the viewport displays, counted from the top of the active screen *)
ViewportRows(t) == (0 - t.viewport_offset) .. (Screen(t).physical_rows - 1 - t.viewport_offset)

ScreenRows(t) == 0 .. (Screen(t).physical_rows - 1)

AllVisibleDirty(t) == \A y \in ScreenRows(t) : VisibleLine(t, y).dirty

EraseDisplayStep == steps' = steps + 1 /\ IsEraseDisplay(last') /\ NoPendingPrint(performer)

(* C5 as stated: whatever the viewport offset, EraseDisplay applied when a *)
(* selection lies in the displayed viewport leaves selection_range None    *)
(* and every visible line dirty.                                           *)
C5_EraseDisplayAnyOffset ==
    [][(EraseDisplayStep /\ IsSome(state.selection_range)
          /\ SelectionRows(state) \subseteq ViewportRows(state))
          => state'.selection_range = None /\ AllVisibleDirty(state')
      ]_vars

(* C5 amended: EraseDisplay applied when a selection lies in the displayed *)
(* viewport leaves every visible line dirty; it leaves selection_range     *)
(* None when one of the selection's rows is a row 0 .. physical_rows-1 of  *)
(* the active screen (always so at viewport offset 0), and keeps a         *)
(* selection that lies wholly in the scrollback rows a scrolled-back       *)
(* viewport shows.                                                         *)
C5_EraseDisplayScreenRows ==
    [][(EraseDisplayStep /\ IsSome(state.selection_range)
          /\ SelectionRows(state) \subseteq ViewportRows(state))
          => /\ AllVisibleDirty(state')
             /\ IF SelectionRows(state) \cap ScreenRows(state) /= {}
                   THEN state'.selection_range = None
                   ELSE /\ IsSome(state'.selection_range)
                        /\ SelectionRows(state') = SelectionRows(state)
                        /\ state.viewport_offset > 0
      ]_vars

(* the display was erased while a selection dragged from column 0 to      *)
(* column 2 of its bottom row existed: no selection is left and both rows  *)
(* are dirty                                                               *)
C5_Witness ==
    /\ IsEraseDisplay(last)
    /\ state.selection_range = None
    /\ state.selection_start = None
    /\ state.current_mouse_button = "Left"
    /\ state.mouse_position = [x |-> 2, y |-> 1]
    /\ AllVisibleDirty(state)
    /\ ScrollbackLen(Screen(state)) = 0

----------------------------------------------------------------------------
(* Scrolling, the alternate screen and resizes *)

(* the capacity the terminal is constructed with *)
ScrollbackCapacity == 1

InitScroll == InitWith({2}, {2}, {ScrollbackCapacity})

AltScreenOps ==
    {[action |-> a, code |-> "EnableAlternateScreen"] :
        a \in {"SetDecPrivateMode", "ResetDecPrivateMode"}}

NextScroll ==
    \/ PrintChars(Letters, MaxScrollSteps)
    \/ Control({"LineFeed"}, MaxScrollSteps)
    \/ CsiEditDispatch({[n |-> 1, op |-> "ScrollUp"]}, MaxScrollSteps)
    \/ CsiModeDispatch(AltScreenOps, MaxScrollSteps)
    \/ ResizeTo({1, 3}, {2}, MaxScrollSteps)
    \/ DropPerformer

SpecScroll == InitScroll /\ [][NextScroll]_vars

ScreenSizeOk(s, capacity) ==
    /\ Len(s.lines) >= s.physical_rows
    /\ ScrollbackLen(s) <= capacity

LineTexts(s) == [i \in 1 .. Len(s.lines) |-> [j \in 1 .. Len(s.lines[i].cells) |->
                                                s.lines[i].cells[j].text]]

(* this step scrolls the whole primary screen up by one line *)
ScrollsWholeScreen ==
    /\ steps' = steps + 1
    /\ NoPendingPrint(performer)
    /\ ~is_alt_screen_active(state)
    /\ state.scroll_region = Range(0, Screen(state).physical_rows)
    /\ \/ last' = CsiEdit([n |-> 1, op |-> "ScrollUp"])
       \/ /\ last' = ControlAction("LineFeed")
          /\ state.cursor.y = Screen(state).physical_rows - 1

----------------------------------------------------------------------------
(* The byte-level lexer and the action decoder, over a small set of bytes: *)
(* ESC, "[", the digit "4", the letters "h" and "a", and the two bytes CC  *)
(* 81 of the UTF-8 encoding of the combining mark U+0301.                  *)

UTF8Lead == "CC"
UTF8Cont == "81"

StreamBytes == {"ESC", "[", "4", "h", "a", UTF8Lead, UTF8Cont}

(* the parameters of the sequence being assembled, the current one included *)
CsiParams(p) == IF IsSome(p.cur) THEN Append(p.params, Unwrap(p.cur)) ELSE p.params

(* CSI::parse for the final bytes of the set *)
csi_parse(params, final) ==
    CASE final = "h" ->
           IF params = <<4>> THEN CsiMode([action |-> "SetMode", code |-> "Insert"])
           ELSE CsiMode([action |-> "SetMode", code |-> "Unspecified"])
      [] final = "a" ->
           IF Len(params) = 0 THEN CsiCursor([n |-> 1, op |-> "CharacterPositionForward"])
           ELSE IF Len(params) = 1
                THEN CsiCursor([n |-> params[1], op |-> "CharacterPositionForward"])
           ELSE CsiUnspecified
      [] OTHER -> CsiUnspecified

(* the CSI of one SGR parameter *)
sgr_parse(param) ==
    CASE param = 0 -> CsiSgr([op |-> "Reset"])
      [] param = 1 -> CsiSgr([v |-> "Bold", op |-> "Intensity"])
      [] OTHER -> CsiUnspecified

(* the actions of Performer::csi_dispatch: CSI::parse yields one CSI per   *)
(* SGR parameter for the final byte m, and one CSI for the other final     *)
(* bytes                                                                    *)
csi_parse_all(params, final) ==
    IF final = "m"
       THEN IF params = <<>> THEN <<CsiSgr([op |-> "Reset"])>>
            ELSE [i \in 1 .. Len(params) |-> sgr_parse(params[i])]
    ELSE <<csi_parse(params, final)>>

(* VTParser::parse_byte: [parser |-> the new lexer state, actions |-> the  *)
(* actions handed to the callback]                                         *)
parse_byte(p, b) ==
    LET ground == [ParserNew EXCEPT !.st = "Ground"]
        Out(q, acts) == [parser |-> q, actions |-> acts]
    IN  IF p.utf8 /= <<>>
           THEN IF b = UTF8Cont THEN Out(ground, <<PrintAction(Combining)>>)
                ELSE Out(ground, <<>>)
        ELSE IF b = "ESC" THEN Out([ground EXCEPT !.st = "Escape"], <<>>)
        ELSE IF p.st = "Ground"
           THEN IF b = UTF8Lead THEN Out([ground EXCEPT !.utf8 = <<b>>], <<>>)
                ELSE IF b = UTF8Cont THEN Out(ground, <<>>)
                ELSE Out(ground, <<PrintAction(b)>>)
        ELSE IF p.st = "Escape"
           THEN IF b = "[" THEN Out([ground EXCEPT !.st = "Csi"], <<>>)
                ELSE IF b \in {UTF8Lead, UTF8Cont} THEN Out(p, <<>>)
                ELSE Out(ground, <<EscAction("Unspecified")>>)
        ELSE IF IsDigit(b)
           THEN Out([p EXCEPT !.cur = Some((IF IsSome(p.cur) THEN Unwrap(p.cur) * 10 ELSE 0)
                                           + DigitValue(b))], <<>>)
        ELSE IF b = ";"
           THEN Out([p EXCEPT !.params = Append(@, IF IsSome(p.cur) THEN Unwrap(p.cur) ELSE 0),
                              !.cur = None], <<>>)
        ELSE IF b \in {UTF8Lead, UTF8Cont} THEN Out(p, <<>>)
        ELSE Out(ground, csi_parse_all(CsiParams(p), b))

(* the bytes a well-formed stream can go on with *)
NextBytes(p) ==
    IF p.utf8 /= <<>> THEN {UTF8Cont}
    ELSE IF p.st = "Ground" THEN StreamBytes \ {UTF8Cont}
    ELSE StreamBytes \ {UTF8Lead, UTF8Cont}

----------------------------------------------------------------------------
(* One byte stream fed to two fresh terminals: to `state` in two           *)
(* advance_bytes calls, to the reference terminal ref.t in one.  The       *)
(* Parser lives in the Terminal and sees the same bytes either way, so     *)
(* `parser` is the lexer state of both.                                    *)

InitStream ==
    /\ NewTerminal({2}, {3}, {1})
    /\ parser = ParserNew
    /\ performer = None
    /\ host = HostNew
    /\ result = NoResult
    /\ last = [k |-> "New"]
    /\ steps = 0
    /\ ref = [host |-> HostNew, t |-> state, print |-> None, active |-> TRUE,
              split |-> FALSE, done |-> FALSE]
    /\ fed = None
    /\ wire = NoWire
    /\ mux = NoMux

Streaming ==
    ref.active /\ ~ref.done /\ Running /\ CursorInBounds(state) /\ CursorInBounds(ref.t)

(* the parser takes one more byte of the slice and the Performer of each   *)
(* terminal performs the actions it recognizes                             *)
ReferenceLeaves(q) == ref' = [ref EXCEPT !.t = q.t, !.host = q.host, !.print = q.print]

ParserCallsBack(r) ==
    /\ parser' = r.parser
    /\ PerformerLeaves(perform_all(CurrentPerformer, r.actions))
    /\ ReferenceLeaves(perform_all(Performer(ref.t, ref.host, ref.print), r.actions))

FeedByte(b) ==
    /\ steps < MaxBytes
    /\ Streaming
    /\ b \in NextBytes(parser)
    /\ ParserCallsBack(parse_byte(parser, b))
    /\ last' = [b |-> b, k |-> "Byte"]
    /\ steps' = steps + 1
    /\ UNCHANGED <<fed, wire, mux>>

(* the first of the two calls returns: its Performer is dropped *)
EndFirstCall ==
    /\ Streaming
    /\ ~ref.split
    /\ PerformerDropped(flush_print(CurrentPerformer))
    /\ ref' = [ref EXCEPT !.split = TRUE]
    /\ last' = [k |-> "Split", at |-> steps]
    /\ UNCHANGED <<parser, steps, fed, wire, mux>>

ReferenceDropped(q) ==
    ref' = [ref EXCEPT !.t = q.t, !.host = q.host, !.print = None, !.done = TRUE]

(* the slice is used up: the second call and the single call return *)
EndLastCall ==
    /\ Streaming
    /\ ref.split
    /\ PerformerDropped(flush_print(CurrentPerformer))
    /\ ReferenceDropped(flush_print(Performer(ref.t, ref.host, ref.print)))
    /\ last' = [k |-> "End", len |-> steps]
    /\ UNCHANGED <<parser, steps, fed, wire, mux>>

NextStream ==
    \/ \E b \in StreamBytes : FeedByte(b)
    \/ EndFirstCall
    \/ EndLastCall

SpecStream == InitStream /\ [][NextStream]_vars

(* C1: once both terminals have been fed the whole slice, the one fed in   *)
(* two calls is in the same state (cursor, wrap_next, pen, modes, scroll   *)
(* region, screen cells, selection, title) as the one fed in a single      *)
(* call, and the same bytes have been written to the host.                 *)
C1_StreamingBoundaryInvariance ==
    (ref.active /\ ref.done)
        => /\ state = ref.t
           /\ host.written = ref.host.written
           /\ host.title = ref.host.title

----------------------------------------------------------------------------
(* Checksum requests (DECRQCRA) on a 2 x 3 terminal with printed text *)

MaxChecksumSteps == 4

InitChecksum == InitWith({2}, {3}, {1})

(* one-based rectangle bounds inside and beyond the 2 rows and 3 columns;  *)
(* overflow_checks is the build profile of the running binary              *)
ChecksumOps ==
    {[top |-> tp, op |-> "ChecksumRectangularArea", bottom |-> bt, overflow_checks |-> oc,
      right |-> rt, left |-> lf, request_id |-> 1] :
        tp \in {1, 2}, lf \in {1, 3}, bt \in {1, 2, 3}, rt \in {3, 4}, oc \in BOOLEAN}

NextChecksum ==
    \/ PrintChars(Letters, MaxChecksumSteps)
    \/ Control({"LineFeed"}, MaxChecksumSteps)
    \/ CsiWindowDispatch(ChecksumOps, MaxChecksumSteps)
    \/ DropPerformer

SpecChecksum == InitChecksum /\ [][NextChecksum]_vars

IsChecksumRequest(a) ==
    /\ "k" \in DOMAIN a
    /\ a.k = "CSI"
    /\ a.csi.k = "Window"
    /\ a.csi.window.op = "ChecksumRectangularArea"

RECURSIVE SumBytes(_, _)
SumBytes(t, cells) ==
    IF cells = {} THEN 0
    ELSE LET c == CHOOSE c \in cells : TRUE
         IN  CharByte(CellAt(t, c[1], c[2]).text[1]) + SumBytes(t, cells \ {c})

(* the checksum of the cells of the requested rectangle that are on screen *)
ClampedChecksum(t, w) ==
    SumBytes(t, {c \in (0 .. Screen(t).physical_cols - 1) \X (0 .. Screen(t).physical_rows - 1) :
                    /\ c[1] >= w.left - 1 /\ c[1] <= w.right - 1
                    /\ c[2] >= w.top - 1 /\ c[2] <= w.bottom - 1}) % (U16_MAX + 1)

(* C11: a checksum request whose rectangle reaches beyond the visible rows *)
(* or columns is clamped to the screen: the call does not fault and the    *)
(* response written carries the checksum of the in-bounds cells.           *)
C11_ChecksumClamped ==
    [][(steps' = steps + 1 /\ IsChecksumRequest(last'))
          => /\ result'.returned /= "Panic"
             /\ host'.written =
                    Append(host.written,
                           EncodeChecksumResponse(last'.csi.window.request_id,
                                                  ClampedChecksum(state', last'.csi.window)))]_vars

----------------------------------------------------------------------------
(* Resizing a 3 x 3 terminal with scrollback, margins and tab stops set *)

MaxResizeSteps == 5

InitResize == InitWith({3}, {3}, {1})

ResizeCursorOps ==
    {[line |-> 3, col |-> 3, op |-> "Position"],
     [top |-> 1, op |-> "SetTopAndBottomMargins", bottom |-> 2],
     [top |-> 2, op |-> "SetTopAndBottomMargins", bottom |-> 3]}

ResizeRows == {2, 3, 4}
ResizeCols == {2, 3, 10}

NextResize ==
    \/ Control({"LineFeed"}, MaxResizeSteps)
    \/ EscDispatch({"HorizontalTabSet"}, MaxResizeSteps)
    \/ CsiCursorDispatch(ResizeCursorOps, MaxResizeSteps)
    \/ Mouse(WheelEvents, MaxResizeSteps)
    \/ ResizeTo(ResizeRows, ResizeCols, MaxResizeSteps)
    \/ DropPerformer

SpecResize == InitResize /\ [][NextResize]_vars

ResizeStep == steps' = steps + 1 /\ last'.k = "Resize"

(* C12: after a resize the cursor is inside the new rows and columns and   *)
(* the viewport shows the bottom of the screen again.                      *)
C12_ResizeClampsCursor ==
    [][ResizeStep
          => /\ state'.cursor.y >= 0 /\ state'.cursor.y <= last'.rows - 1
             /\ state'.cursor.x >= 0 /\ state'.cursor.x <= last'.cols - 1
             /\ state'.viewport_offset = 0]_vars

(* a resize to fewer rows and columns, made with the cursor in the bottom  *)
(* right cell and the viewport scrolled back                               *)
C12_Witness ==
    /\ last.k = "Resize"
    /\ last.rows = 2 /\ last.cols = 2
    /\ last.cursor = [x |-> 2, y |-> 2]
    /\ last.viewport_offset = 1
    /\ state.cursor = [x |-> 1, y |-> 1]
    /\ state.viewport_offset = 0


MarginsSet(t) == t.scroll_region /= Range(0, Screen(t).physical_rows)

(* C13: a resize leaves a scroll region set by margins as it was, cut back *)
(* to the new row count: margins inside the new rows are kept, a region    *)
(* reaching beyond them ends at the new row count.                         *)
C13_ResizeClampsScrollRegion ==
    [][(ResizeStep /\ MarginsSet(state))
          => state'.scroll_region =
                 Range(Min(state.scroll_region.start, last'.rows),
                       Min(state.scroll_region.end, last'.rows))]_vars

(* C14: a resize to more columns keeps the stop of every column below the  *)
(* old width and gives a new column i a stop exactly when i mod 8 = 0.     *)
C14_TabStopsAcrossResize ==
    [][(ResizeStep /\ last'.cols > Screen(state).physical_cols)
          => /\ \A i \in 0 .. Screen(state).physical_cols - 1 :
                    state'.tabs.tabs[i + 1] = state.tabs.tabs[i + 1]
             /\ \A i \in Screen(state).physical_cols .. last'.cols - 1 :
                    state'.tabs.tabs[i + 1] = (i % TabWidth = 0)]_vars

----------------------------------------------------------------------------
(* The alternate screen and the saved cursor of each screen, on a 2 x 2    *)
(* terminal with one line of scrollback                                    *)

MaxAltSteps == 6

InitAlt == InitWith({2}, {2}, {1})

AltModeCodes == {"EnableAlternateScreen", "ClearAndEnableAlternateScreen"}

AltModeOps ==
    {[action |-> a, code |-> c] :
        a \in {"SetDecPrivateMode", "ResetDecPrivateMode"}, c \in AltModeCodes}

AltCursorOps ==
    {[line |-> 2, col |-> 2, op |-> "Position"], [op |-> "SaveCursor"],
     [op |-> "RestoreCursor"]}

NextAlt ==
    \/ PrintChars({"a"}, MaxAltSteps)
    \/ Control({"LineFeed"}, MaxAltSteps)
    \/ CsiModeDispatch(AltModeOps, MaxAltSteps)
    \/ CsiCursorDispatch(AltCursorOps, MaxAltSteps)
    \/ Mouse(WheelEvents, MaxAltSteps)
    \/ DropPerformer

SpecAlt == InitAlt /\ [][NextAlt]_vars

AltEnable(a) ==
    \E c \in AltModeCodes : a = CsiMode([action |-> "SetDecPrivateMode", code |-> c])

AltDisable(a) ==
    \E c \in AltModeCodes : a = CsiMode([action |-> "ResetDecPrivateMode", code |-> c])

(* C15: one of the two screens is active; an enable on the primary makes   *)
(* the alternate active with viewport offset 0, a disable on the alternate *)
(* makes the primary active with viewport offset 0, and an enable on the   *)
(* alternate or a disable on the primary changes nothing.                  *)
C15_AlternateScreenSwitch ==
    /\ [](state.screen.alt_screen_is_active \in BOOLEAN)
    /\ [][(steps' = steps + 1 /\ NoPendingPrint(performer)
             /\ (AltEnable(last') \/ AltDisable(last')))
            => IF AltEnable(last') /\ ~is_alt_screen_active(state)
                  THEN is_alt_screen_active(state') /\ state'.viewport_offset = 0
                  ELSE IF AltDisable(last') /\ is_alt_screen_active(state)
                          THEN ~is_alt_screen_active(state')
                               /\ state'.viewport_offset = 0
                          ELSE state' = state]_vars


(* the alternate screen was just entered with the clearing mode from a     *)
(* primary screen that holds "a" in its scrollback line: the alternate is  *)
(* active and blank, the viewport is at the bottom, the primary slot holds *)
(* the cursor saved by the switch                                          *)
C15_Witness ==
    /\ last = CsiMode([action |-> "SetDecPrivateMode",
                       code |-> "ClearAndEnableAlternateScreen"])
    /\ is_alt_screen_active(state)
    /\ state.viewport_offset = 0
    /\ ScrollbackLen(state.screen.screen) = 1
    /\ state.screen.screen.lines[1].cells[1].text = <<"a">>
    /\ state.screen.saved_cursor = Some([wrap_next |-> FALSE,
                                         insert |-> FALSE, position |-> [x |-> 1, y |-> 1]])
    /\ state.screen.alt_saved_cursor = None
    /\ state.cursor = [x |-> 0, y |-> 0]


SwitchOnly(a) ==
    \E act \in {"SetDecPrivateMode", "ResetDecPrivateMode"} :
        a = CsiMode([action |-> act, code |-> "EnableAlternateScreen"])

SlotPosition(slot) == IF IsSome(slot) THEN Unwrap(slot).position ELSE DefaultCursor

(* C16: a save-cursor writes the slot of the active screen and leaves the  *)
(* slot of the other screen alone, the switch-only modes change neither    *)
(* slot, and a restore-cursor moves the cursor to the position in the slot *)
(* of the active screen; so a position saved on the primary is restored on *)
(* the primary after a save of another position on the alternate.          *)
C16_SavedCursorPerScreen ==
    /\ [][(steps' = steps + 1 /\ last' = CsiCursor([op |-> "SaveCursor"]))
            => /\ is_alt_screen_active(state') = is_alt_screen_active(state)
               /\ SlotPosition(saved_cursor(state')) = state'.cursor
               /\ IsSome(saved_cursor(state'))
               /\ IF is_alt_screen_active(state)
                     THEN state'.screen.saved_cursor = state.screen.saved_cursor
                     ELSE state'.screen.alt_saved_cursor = state.screen.alt_saved_cursor]_vars
    /\ [][(steps' = steps + 1 /\ SwitchOnly(last'))
            => /\ state'.screen.saved_cursor = state.screen.saved_cursor
               /\ state'.screen.alt_saved_cursor = state.screen.alt_saved_cursor]_vars
    /\ [][(steps' = steps + 1 /\ last' = CsiCursor([op |-> "RestoreCursor"]))
            => /\ state'.cursor = SlotPosition(saved_cursor(state))
               /\ state'.screen.saved_cursor = state.screen.saved_cursor
               /\ state'.screen.alt_saved_cursor = state.screen.alt_saved_cursor]_vars

(* (0,0) was saved on the primary and (1,1) on the alternate; back on the  *)
(* primary a restore has put the cursor at (0,0)                           *)
C16_Witness ==
    /\ last = CsiCursor([op |-> "RestoreCursor"])
    /\ ~is_alt_screen_active(state)
    /\ SlotPosition(state.screen.saved_cursor) = [x |-> 0, y |-> 0]
    /\ IsSome(state.screen.saved_cursor)
    /\ SlotPosition(state.screen.alt_saved_cursor) = [x |-> 1, y |-> 1]
    /\ IsSome(state.screen.alt_saved_cursor)
    /\ state.cursor = [x |-> 0, y |-> 0]

----------------------------------------------------------------------------
(* Keys pressed with the viewport scrolled back, on a 2 x 2 terminal with  *)
(* two lines of scrollback                                                 *)

MaxKeySteps == 6

InitKeys == InitWith({2}, {2}, {2})

ScrollKeys ==
    {[c |-> "a", k |-> "Char"], [k |-> "Enter"], [k |-> "UpArrow"], [k |-> "PageUp"],
     [k |-> "PageDown"], [k |-> "Shift"], [n |-> 1, k |-> "Function"]}

ScrollKeyMods == {[NoMods EXCEPT !.shift = s, !.ctrl = c] : s, c \in BOOLEAN}

KeyWith(keys, modset, bound) ==
    \E key \in keys, mods \in modset :
        /\ Len(host.written) < MaxReplies
        /\ KeyDown(key, mods, bound)

NextKeys ==
    \/ Control({"LineFeed"}, MaxKeySteps)
    \/ DropPerformer
    \/ Mouse(WheelEvents, MaxKeySteps)
    \/ HostBreaks(MaxKeySteps)
    \/ KeyWith(ScrollKeys, ScrollKeyMods, MaxKeySteps)

SpecKeys == InitKeys /\ [][NextKeys]_vars

KeyStep == steps' = steps + 1 /\ last'.k = "Key"

(* the key sent something: the host has one more item, or the write failed *)
Transmits == host'.written /= host.written \/ result'.write_failed

(* the viewport offset scroll_viewport(delta) leaves *)
ScrolledBy(t, delta) ==
    Max(0, Min(t.viewport_offset - delta,
               Len(Screen(t).lines) - Screen(t).physical_rows))

(* C17: a key with a non-empty encoding whose write succeeds leaves the    *)
(* viewport at offset 0; a key with an empty encoding leaves the viewport  *)
(* where it was, or, for Shift+PageUp and Shift+PageDown, one screen of    *)
(* rows further back or forward.                                           *)
C17_TypingExitsScrollback ==
    [][KeyStep
          => /\ (host'.written /= host.written /\ result'.returned = "Ok")
                    => state'.viewport_offset = 0
             /\ ~Transmits
                    => state'.viewport_offset =
                          IF last'.key.k = "PageUp" /\ last'.mods.shift
                             THEN ScrolledBy(state, -Screen(state).physical_rows)
                          ELSE IF last'.key.k = "PageDown" /\ last'.mods.shift
                             THEN ScrolledBy(state, Screen(state).physical_rows)
                          ELSE state.viewport_offset]_vars


(* "a" was typed with the viewport scrolled back by two lines: it was      *)
(* written to the host and the viewport is at the bottom again             *)
C17_Witness ==
    /\ last.k = "Key"
    /\ last.key = [c |-> "a", k |-> "Char"]
    /\ last.mods = NoMods
    /\ last.viewport_offset = 2
    /\ result = [write_failed |-> FALSE, call |-> "key_down", returned |-> "Ok"]
    /\ host.written = << <<"a">> >>
    /\ state.viewport_offset = 0

----------------------------------------------------------------------------
(* Function keys with every combination of modifiers *)

MaxFnSteps == 2

InitFn == InitWith({2}, {2}, {0})

FnKeys == {[n |-> n, k |-> "Function"] : n \in 0 .. 13}

AllMods == [ctrl : BOOLEAN, alt : BOOLEAN, shift : BOOLEAN]

NextFn ==
    \/ KeyWith(FnKeys, AllMods, MaxFnSteps)
    \/ HostBreaks(MaxFnSteps)

SpecFn == InitFn /\ [][NextFn]_vars

(* the xterm modifier parameter: 1 plus 1 for shift, 2 for alt, 4 for ctrl *)
ModifierParam(mods) ==
    1 + (IF mods.shift THEN 1 ELSE 0) + (IF mods.alt THEN 2 ELSE 0)
      + (IF mods.ctrl THEN 4 ELSE 0)

(* the number in the CSI sequence of function key n *)
FunctionCode(n) == IF n <= 5 THEN 10 + n ELSE IF n <= 10 THEN 11 + n ELSE 12 + n

FunctionKeyBytes(n, mods) ==
    IF ModifierParam(mods) = 1 /\ n <= 4
       THEN <<"ESC", "O", <<"P", "Q", "R", "S">>[n]>>
       ELSE <<"ESC", "[", DigitChars[(FunctionCode(n) \div 10) + 1],
              DigitChars[(FunctionCode(n) % 10) + 1]>>
            \o (IF ModifierParam(mods) = 1 THEN <<>>
                ELSE <<";", DigitChars[ModifierParam(mods) + 1]>>)
            \o <<"~">>

(* C18: Function(n), 1 <= n <= 12, sends its CSI sequence with ;N before   *)
(* the final ~, N = 2 shift, 3 alt, 4 alt+shift, 5 ctrl, 6 ctrl+shift,     *)
(* 7 ctrl+alt, 8 ctrl+alt+shift, and no suffix without modifiers, where    *)
(* F1-F4 send ESC O P/Q/R/S.                                               *)
C18_FunctionKeyModifiers ==
    [][(KeyStep /\ last'.key.k = "Function" /\ last'.key.n \in 1 .. 12 /\ ~host.broken)
          => /\ host'.written =
                    Append(host.written, FunctionKeyBytes(last'.key.n, last'.mods))
             /\ result'.returned = "Ok"]_vars

(* Ctrl+Alt+Shift+F12 was pressed and ESC [ 2 4 ; 8 ~ was sent *)
C18_Witness ==
    /\ last.k = "Key"
    /\ last.key = [n |-> 12, k |-> "Function"]
    /\ last.mods = [ctrl |-> TRUE, alt |-> TRUE, shift |-> TRUE]
    /\ result.returned = "Ok"
    /\ host.written = << <<"ESC", "[", "2", "4", ";", "8", "~">> >>

----------------------------------------------------------------------------
(* The mouse wheel with SGR reporting on or off, on either screen, on a    *)
(* 2 x 2 terminal with two lines of scrollback                             *)

MaxWheelSteps == 5

InitWheel == InitWith({2}, {2}, {2})

WheelModeOps ==
    {[action |-> a, code |-> c] :
        a \in {"SetDecPrivateMode", "ResetDecPrivateMode"},
        c \in {"SGRMouse", "EnableAlternateScreen"}}
    \cup {[action |-> "SetDecPrivateMode", code |-> "ApplicationCursorKeys"]}

WheelAmounts == {1, 3}

WheelOps ==
    {[x |-> c, y |-> c, kind |-> "Press", shift |-> s, button |-> b, soon |-> FALSE,
      amount |-> n] :
        b \in {"WheelUp", "WheelDown"}, c \in {0, 1, 4}, s \in BOOLEAN, n \in WheelAmounts}

NextWheel ==
    \/ Control({"LineFeed"}, MaxWheelSteps)
    \/ CsiModeDispatch(WheelModeOps, MaxWheelSteps)
    \/ Mouse(WheelOps, MaxWheelSteps)
    \/ HostBreaks(MaxWheelSteps)
    \/ DropPerformer

SpecWheel == InitWheel /\ [][NextWheel]_vars

WheelStep ==
    /\ steps' = steps + 1
    /\ last'.k = "Mouse"
    /\ last'.event.kind = "Press"
    /\ last'.event.button \in {"WheelUp", "WheelDown"}

(* the SGR report of a wheel event at the cell the event is clamped to *)
WheelReport(t, e) ==
    <<"ESC", "[", "<", "6", IF e.button = "WheelUp" THEN "4" ELSE "5", ";",
      DigitChars[Min(e.x, Screen(t).physical_cols - 1) + 2], ";",
      DigitChars[Min(e.y, Screen(t).physical_rows - 1) + 2], "M">>

WheelArrows(e) ==
    IF e.button = "WheelUp" THEN {<<"ESC", "[", "A">>, <<"ESC", "O", "A">>}
    ELSE {<<"ESC", "[", "B">>, <<"ESC", "O", "B">>}

(* C19: with SGR mouse reporting on, a wheel event writes its SGR report   *)
(* and does not scroll; otherwise on the alternate screen it writes one    *)
(* arrow key encoding whatever the wheel amount and does not scroll;       *)
(* otherwise it writes nothing and the viewport offset moves by the wheel  *)
(* amount, kept within 0 and the scrollback length.                        *)
C19_MouseWheelRouting ==
    [][WheelStep
          => IF state.sgr_mouse
                THEN /\ state'.viewport_offset = state.viewport_offset
                     /\ ~host.broken
                           => host'.written =
                                  Append(host.written, WheelReport(state, last'.event))
             ELSE IF is_alt_screen_active(state)
                THEN /\ state'.viewport_offset = state.viewport_offset
                     /\ ~host.broken
                           => /\ Len(host'.written) = Len(host.written) + 1
                              /\ SubSeq(host'.written, 1, Len(host.written)) = host.written
                              /\ host'.written[Len(host'.written)]
                                     \in WheelArrows(last'.event)
             ELSE /\ host'.written = host.written
                  /\ state'.viewport_offset =
                         Max(0, Min(state.viewport_offset
                                       + (IF last'.event.button = "WheelUp"
                                             THEN last'.event.amount
                                             ELSE 0 - last'.event.amount),
                                    ScrollbackLen(Screen(state))))]_vars

(* a wheel-up of amount 3 on the alternate screen has written one Up arrow *)
C19_Witness ==
    /\ last.k = "Mouse"
    /\ last.event.button = "WheelUp"
    /\ last.event.amount = 3
    /\ is_alt_screen_active(state)
    /\ ~state.sgr_mouse
    /\ ScrollbackLen(state.screen.screen) = 1
    /\ host.written = << <<"ESC", "[", "A">> >>
    /\ state.viewport_offset = 0

----------------------------------------------------------------------------
(* Double clicks on lines of words, on a 2 x 3 terminal without scrollback *)

MaxWordSteps == 7

InitWord == InitWith({2}, {3}, {0})

WordChars == {"a", "b", " "}

ClickEvents ==
    {[x |-> x, y |-> y, kind |-> "Press", shift |-> FALSE, button |-> "Left", soon |-> sn,
      amount |-> 0] : x \in 0 .. 2, y \in 0 .. 1, sn \in BOOLEAN}

NextWord ==
    \/ PrintChars(WordChars, MaxWordSteps)
    \/ Mouse(ClickEvents, MaxWordSteps)
    \/ DropPerformer

SpecWord == InitWord /\ [][NextWord]_vars

(* a press that is the second click of a streak *)
DoubleClickStep ==
    /\ steps' = steps + 1
    /\ last'.k = "Mouse"
    /\ last'.event.kind = "Press" /\ last'.event.button = "Left"
    /\ ClickStreak(state) = 1 /\ last'.event.soon

ClickedLine == Screen(state).lines[(ScrollbackLen(Screen(state)) + last'.event.y) + 1]

WordCell(i) ==
    /\ ClickedLine.cells[i + 1].text /= <<>>
    /\ ClickedLine.cells[i + 1].text
           \notin {<<c>> : c \in {" ", "\t", "\n", "{", "[", "}", "]", "(", ")", "\"", "'"}}

(* the first and the last column of the maximal run of word cells around x *)
RunStart(x) == CHOOSE l \in 0 .. x :
                   /\ \A i \in l .. x : WordCell(i)
                   /\ l > 0 => ~WordCell(l - 1)
RunEnd(x) == CHOOSE u \in x .. Len(ClickedLine.cells) - 1 :
                 /\ \A i \in x .. u : WordCell(i)
                 /\ u < Len(ClickedLine.cells) - 1 => ~WordCell(u + 1)

RECURSIVE RunText(_, _)
RunText(l, u) == IF l > u THEN <<>> ELSE ClickedLine.cells[l + 1].text \o RunText(l + 1, u)

(* C20: a double click at column x selects the maximal run of word cells   *)
(* that contains x, from its first to its last cell, and puts the text of  *)
(* the run on the clipboard; a double click on a cell that is not a word   *)
(* cell, which no run contains, selects no text.  A run whose last cell is *)
(* soft-wrapped continues on the next line and is left out here.           *)
C20_DoubleClickWord ==
    [][DoubleClickStep
          => /\ result'.returned /= "Panic"
             /\ IF WordCell(last'.event.x)
                   THEN ~ClickedLine.cells[RunEnd(last'.event.x) + 1].attrs.wrapped
                           => /\ state'.selection_range =
                                    Some(SelectionRange(
                                        SelectionCoordinate(RunStart(last'.event.x),
                                                            last'.event.y),
                                        SelectionCoordinate(RunEnd(last'.event.x),
                                                            last'.event.y)))
                              /\ host'.clipboard =
                                    Some(RunText(RunStart(last'.event.x),
                                                 RunEnd(last'.event.x)))
                   ELSE host'.clipboard \in {None, Some(<<>>)}]_vars

(* the part of C20 about clicks on word cells *)
C20_WordCellsOnly ==
    [][(DoubleClickStep /\ WordCell(last'.event.x)
          /\ ~ClickedLine.cells[RunEnd(last'.event.x) + 1].attrs.wrapped)
          => /\ result'.returned /= "Panic"
             /\ state'.selection_range =
                    Some(SelectionRange(
                        SelectionCoordinate(RunStart(last'.event.x), last'.event.y),
                        SelectionCoordinate(RunEnd(last'.event.x), last'.event.y)))
             /\ host'.clipboard =
                    Some(RunText(RunStart(last'.event.x), RunEnd(last'.event.x)))]_vars

----------------------------------------------------------------------------
(* Text and the line controls fed to fresh terminals of 2 or 3 rows and 3  *)
(* or 4 columns; the actions performed are recorded in fed                 *)

MaxFeedSteps == 5

InitFeed == InitFed({2, 3}, {3, 4}, {0})

NextFeed ==
    \/ PrintChars(Letters, MaxFeedSteps)
    \/ Control({"CarriageReturn", "LineFeed"}, MaxFeedSteps)
    \/ DropPerformer

SpecFeed == InitFeed /\ [][NextFeed]_vars

IsControl(a, code) == a.k = "Control" /\ a.code = code
IsPrintOf(a, c) == a.k = "Print" /\ a.c = c

(* what was fed is k characters, a carriage return and a line feed *)
PrintsThenCrLf(f, k) ==
    /\ Len(f) = k + 2
    /\ \A i \in 1 .. k : f[i].k = "Print"
    /\ IsControl(f[k + 1], "CarriageReturn")
    /\ IsControl(f[k + 2], "LineFeed")

(* C21: a fresh terminal fed k characters, 1 <= k < physical_cols, then CR *)
(* and LF has the cursor at (0,1) and row 0 holds the k characters in      *)
(* columns 0..k-1 followed by blank cells.                                 *)
C21_PrintThenCrLf ==
    \A k \in 1 .. Screen(state).physical_cols - 1 :
        PrintsThenCrLf(Unwrap(fed), k)
            => /\ state.cursor = [x |-> 0, y |-> 1]
               /\ \A i \in 1 .. k : CellAt(state, i - 1, 0).text = <<Unwrap(fed)[i].c>>
               /\ \A x \in k .. Screen(state).physical_cols - 1 :
                      CellAt(state, x, 0).text = <<" ">>

(* "a", "b", "a", CR and LF were fed to a terminal of 4 columns *)
C21_Witness ==
    /\ PrintsThenCrLf(Unwrap(fed), 3)
    /\ IsPrintOf(Unwrap(fed)[1], "a")
    /\ IsPrintOf(Unwrap(fed)[2], "b")
    /\ IsPrintOf(Unwrap(fed)[3], "a")
    /\ Screen(state).physical_cols = 4
    /\ state.cursor = [x |-> 0, y |-> 1]
    /\ [i \in 1 .. 4 |-> CellAt(state, i - 1, 0).text] = << <<"a">>, <<"b">>, <<"a">>, <<" ">> >>

----------------------------------------------------------------------------
(* The line-advance controls with margins, on both screens of a 3 x 3      *)
(* terminal with one line of scrollback                                    *)

MaxLineSteps == 5

InitLines == InitWith({3}, {3}, {1})

LineFeedCodes == {"LineFeed", "VerticalTab", "FormFeed"}

LineEscCodes == {"Index", "NextLine", "ReverseIndex"}

LineCursorOps ==
    {[top |-> 1, op |-> "SetTopAndBottomMargins", bottom |-> 2],
     [top |-> 2, op |-> "SetTopAndBottomMargins", bottom |-> 3],
     [line |-> 2, col |-> 2, op |-> "Position"]}

NextLines ==
    \/ PrintChars({"a"}, MaxLineSteps)
    \/ Control(LineFeedCodes, MaxLineSteps)
    \/ EscDispatch(LineEscCodes, MaxLineSteps)
    \/ CsiCursorDispatch(LineCursorOps, MaxLineSteps)
    \/ CsiEditDispatch({[n |-> n, op |-> "ScrollUp"] : n \in 1 .. 2}, MaxLineSteps)
    \/ CsiModeDispatch(AltScreenOps, MaxLineSteps)
    \/ DropPerformer

SpecLines == InitLines /\ [][NextLines]_vars

IsEsc(a, esc) == a.k = "Esc" /\ a.esc = esc

IsLineFeed(a) == a.k = "Control" /\ a.code \in LineFeedCodes

LineStep == steps' = steps + 1 /\ NoPendingPrint(performer)

(* C22: NEL and the C0 line feed leave the cursor in column 0, IND leaves  *)
(* the cursor column as it was.                                            *)
C22_LineAdvanceColumn ==
    [][LineStep
          => /\ (IsEsc(last', "NextLine") \/ IsControl(last', "LineFeed"))
                    => state'.cursor.x = 0
             /\ IsEsc(last', "Index") => state'.cursor.x = state.cursor.x]_vars

(* the part of C22 about NEL and IND *)
C22_NelAndInd ==
    [][LineStep
          => /\ IsEsc(last', "NextLine") => state'.cursor.x = 0
             /\ IsEsc(last', "Index") => state'.cursor.x = state.cursor.x]_vars


(* the texts of the visible rows 0 .. physical_rows-1 of the active screen *)
VisibleTexts(t) ==
    [y \in 0 .. Screen(t).physical_rows - 1 |->
        [x \in 0 .. Screen(t).physical_cols - 1 |-> CellAt(t, x, y).text]]

BlankRow(t) == [x \in 0 .. Screen(t).physical_cols - 1 |-> <<" ">>]

(* the rows of the scroll region have moved up by one line *)
RegionScrolledUp(old, new, region, blank) ==
    \A y \in DOMAIN old :
        new[y] = IF y < region.start \/ y >= region.end THEN old[y]
                 ELSE IF y = region.end - 1 THEN blank ELSE old[y + 1]

RegionScrolledDown(old, new, region, blank) ==
    \A y \in DOMAIN old :
        new[y] = IF y < region.start \/ y >= region.end THEN old[y]
                 ELSE IF y = region.start THEN blank ELSE old[y - 1]

MovesDown(a) == IsLineFeed(a) \/ IsEsc(a, "Index") \/ IsEsc(a, "NextLine")

(* C27: on the last row of the scroll region LF/VT/FF, IND and NEL scroll  *)
(* the region up by one line and keep the cursor row, elsewhere they move  *)
(* the cursor down one row, staying on the screen, and scroll nothing; RI  *)
(* at the first row of the region scrolls the region down by one line and  *)
(* keeps the cursor row, elsewhere it moves the cursor up one row, staying *)
(* on the screen, and scrolls nothing.                                     *)
C27_ScrollRegionEdge ==
    [][LineStep
          => /\ MovesDown(last')
                   => IF state.cursor.y = state.scroll_region.end - 1
                         THEN /\ state'.cursor.y = state.cursor.y
                              /\ RegionScrolledUp(VisibleTexts(state), VisibleTexts(state'),
                                                  state.scroll_region, BlankRow(state))
                         ELSE /\ state'.cursor.y =
                                     Min(state.cursor.y + 1, Screen(state).physical_rows - 1)
                              /\ VisibleTexts(state') = VisibleTexts(state)
             /\ IsEsc(last', "ReverseIndex")
                   => IF state.cursor.y = state.scroll_region.start
                         THEN /\ state'.cursor.y = state.cursor.y
                              /\ RegionScrolledDown(VisibleTexts(state), VisibleTexts(state'),
                                                    state.scroll_region, BlankRow(state))
                         ELSE /\ state'.cursor.y = Max(state.cursor.y - 1, 0)
                              /\ VisibleTexts(state') = VisibleTexts(state)]_vars

(* C27 apart from RI on row 0 above the scroll region *)
C27_ExceptAboveRegion ==
    [][(LineStep /\ ~(IsEsc(last', "ReverseIndex") /\ state.cursor.y = 0
                        /\ state.scroll_region.start > 0))
          => /\ MovesDown(last')
                   => IF state.cursor.y = state.scroll_region.end - 1
                         THEN /\ state'.cursor.y = state.cursor.y
                              /\ RegionScrolledUp(VisibleTexts(state), VisibleTexts(state'),
                                                  state.scroll_region, BlankRow(state))
                         ELSE /\ state'.cursor.y =
                                     Min(state.cursor.y + 1, Screen(state).physical_rows - 1)
                              /\ VisibleTexts(state') = VisibleTexts(state)
             /\ IsEsc(last', "ReverseIndex")
                   => IF state.cursor.y = state.scroll_region.start
                         THEN /\ state'.cursor.y = state.cursor.y
                              /\ RegionScrolledDown(VisibleTexts(state), VisibleTexts(state'),
                                                    state.scroll_region, BlankRow(state))
                         ELSE /\ state'.cursor.y = state.cursor.y - 1
                              /\ VisibleTexts(state') = VisibleTexts(state)]_vars

(* the texts of the scrollback lines of the primary screen, oldest first *)
ScrollbackTexts(t) ==
    SubSeq(LineTexts(t.screen.screen), 1, ScrollbackLen(t.screen.screen))

(* a step that scrolls the scroll region up, and by how many lines *)
ScrollsUpBy(n) ==
    /\ LineStep
    /\ \/ n = 1 /\ MovesDown(last') /\ state.cursor.y = state.scroll_region.end - 1
       \/ /\ last'.k = "CSI" /\ last'.csi.k = "Edit"
          /\ last'.csi.edit.op = "ScrollUp" /\ last'.csi.edit.n = n

(* the texts of visible row y as a sequence *)
RowTexts(t, y) == [j \in 1 .. Screen(t).physical_cols |-> CellAt(t, j - 1, y).text]

FullRegion(t) == t.scroll_region = Range(0, Screen(t).physical_rows)

(* the last cap lines of seq followed by the top n rows of t *)
FedScrollback(seq, t, n, cap) ==
    LET all == seq \o [i \in 1 .. Min(n, Screen(t).physical_rows) |-> RowTexts(t, i - 1)]
    IN  SubSeq(all, Len(all) + 1 - Min(Len(all), cap), Len(all))

(* the rows of the scroll region have moved up by n lines *)
RegionScrolledUpBy(old, new, region, blank, n) ==
    \A y \in DOMAIN old :
        new[y] = IF y < region.start \/ y >= region.end THEN old[y]
                 ELSE IF y + n >= region.end THEN blank ELSE old[y + n]

(* C28: a scroll up of the whole primary screen appends the lines scrolled *)
(* off the top to the scrollback, the oldest lines leaving when the cap is *)
(* passed; a scroll up of a proper sub-range of the rows, and any scroll   *)
(* on the alternate screen, leaves the scrollback lines as they were and   *)
(* changes only rows of the region.                                        *)
C28_ScrollbackFeed ==
    [][\A n \in 1 .. 2 :
         ScrollsUpBy(n)
          => IF FullRegion(state) /\ ~is_alt_screen_active(state)
                THEN ScrollbackTexts(state') =
                         FedScrollback(ScrollbackTexts(state), state, n,
                                       state.screen.screen.scrollback_size)
                ELSE /\ ScrollbackTexts(state') = ScrollbackTexts(state)
                     /\ ScrollbackLen(state'.screen.alt_screen) = 0
                     /\ RegionScrolledUpBy(VisibleTexts(state), VisibleTexts(state'),
                                           state.scroll_region, BlankRow(state), n)]_vars

(* the region of rows 1..2 of the primary screen was scrolled up with a    *)
(* line of "a" in the scrollback and "a" in row 0: both are still there    *)
C28_Witness ==
    /\ last.k = "Control" /\ last.code = "LineFeed"
    /\ ~is_alt_screen_active(state)
    /\ state.scroll_region = Range(1, 3)
    /\ state.cursor.y = 2
    /\ ScrollbackTexts(state) = << << <<"a">>, <<" ">>, <<" ">> >> >>
    /\ VisibleTexts(state)[0][0] = <<" ">>


----------------------------------------------------------------------------
(* Tab stops: HT, HTS, cursor positioning and resizes on a screen of ten    *)
(* columns, with the performed actions recorded.                           *)

MaxTabSteps == 5

InitTabs == InitFed({2}, {10}, {0})

TabCursorOps == {[line |-> 1, col |-> c, op |-> "Position"] : c \in {1, 4, 7, 10}}

NextTabs ==
    \/ PrintChars({"a"}, MaxTabSteps)
    \/ Control({"HorizontalTab"}, MaxTabSteps)
    \/ EscDispatch({"HorizontalTabSet"}, MaxTabSteps)
    \/ CsiCursorDispatch(TabCursorOps, MaxTabSteps)
    \/ ResizeTo({2}, {4, 10}, MaxTabSteps)
    \/ DropPerformer

SpecTabs == InitTabs /\ [][NextTabs]_vars

(* the columns right of the cursor, on the screen, that have a tab stop *)
StopsAhead(t) ==
    {c \in t.cursor.x + 1 .. Screen(t).physical_cols - 1 : t.tabs.tabs[c + 1]}

(* where HT is to put the cursor *)
NextStopColumn(t) ==
    IF StopsAhead(t) = {} THEN Screen(t).physical_cols - 1
    ELSE CHOOSE c \in StopsAhead(t) : \A d \in StopsAhead(t) : c <= d

(* what was fed ends with: go to column p, HTS, go to column q, HT *)
SetStopThenTab(f, p, q) ==
    /\ Len(f) >= 4
    /\ LET n == Len(f)
           IsPosition(a, c) == /\ a.k = "CSI" /\ a.csi.k = "Cursor"
                               /\ a.csi.cursor.op = "Position"
                               /\ a.csi.cursor.col = c + 1
       IN  /\ IsPosition(f[n - 3], p)
           /\ IsEsc(f[n - 2], "HorizontalTabSet")
           /\ IsPosition(f[n - 1], q)
           /\ IsControl(f[n], "HorizontalTab")

(* C29: HT moves the cursor to the nearest tab stop right of it on the     *)
(* screen, or to the last column when there is none, and keeps the row;    *)
(* HTS marks the cursor's column as a stop and changes no other stop; an   *)
(* HT from the left of a column marked by HTS, with no stop in between,    *)
(* lands on that column.                                                   *)
C29_HorizontalTab ==
    /\ [][(LineStep /\ IsControl(last', "HorizontalTab"))
            => /\ state'.cursor.x = NextStopColumn(state)
               /\ state'.cursor.y = state.cursor.y
               /\ state'.tabs = state.tabs]_vars
    /\ [][(LineStep /\ IsEsc(last', "HorizontalTabSet"))
            => /\ state'.tabs.tabs[state.cursor.x + 1]
               /\ \A i \in DOMAIN state.tabs.tabs :
                      i /= state.cursor.x + 1 => state'.tabs.tabs[i] = state.tabs.tabs[i]
               /\ DOMAIN state'.tabs.tabs = DOMAIN state.tabs.tabs
               /\ state'.cursor = state.cursor]_vars
    /\ [][(LineStep /\ IsControl(last', "HorizontalTab"))
            => \A p \in 0 .. Screen(state).physical_cols - 1 : \A q \in 0 .. p - 1 :
                  (/\ SetStopThenTab(Unwrap(fed'), p, q)
                   /\ \A c \in q + 1 .. p - 1 : ~state.tabs.tabs[c + 1])
                      => state'.cursor.x = p]_vars

(* a stop was set at column 6 and an HT from column 3 has stopped there,   *)
(* short of the default stop at column 8                                   *)
C29_Witness ==
    /\ IsControl(last, "HorizontalTab")
    /\ SetStopThenTab(Unwrap(fed), 6, 3)
    /\ state.cursor = [x |-> 6, y |-> 0]
    /\ state.tabs.tabs[7] /\ state.tabs.tabs[9]
    /\ Screen(state).physical_cols = 10


----------------------------------------------------------------------------
(* Printing one cluster: letters, a wide character and a combining mark,   *)
(* with insert mode switched on and off.                                   *)

MaxAdvanceSteps == 5

InitAdvance == InitWith({2}, {4}, {0})

NextAdvance ==
    \/ PrintChars({"a", WideChar, Combining}, MaxAdvanceSteps)
    \/ Control({"CarriageReturn"}, MaxAdvanceSteps)
    \/ CsiModeDispatch(InsertModeOps, MaxAdvanceSteps)
    \/ DropPerformer

SpecAdvance == InitAdvance /\ [][NextAdvance]_vars

(* this step flushes a batch that is one cluster of width at least 1 that  *)
(* fits between the cursor and the last column                             *)
PrintsOneCluster ==
    /\ DropStep
    /\ Len(graphemes(PendingPrint(performer))) = 1
    /\ unicode_column_width(PendingPrint(performer)) >= 1
    /\ state.cursor.x + unicode_column_width(PendingPrint(performer))
           < Screen(state).physical_cols

(* the cluster stands at the old cursor and the cursor is behind it *)
ClusterPrinted ==
    /\ CellAt(state', state.cursor.x, state.cursor.y).text = PendingPrint(performer)
    /\ state'.cursor =
          [x |-> state.cursor.x + unicode_column_width(PendingPrint(performer)),
           y |-> state.cursor.y]

(* C30: printing one cluster of width w with the cursor at column x, where *)
(* x + w is less than the number of columns, writes the cluster at column  *)
(* x of the cursor row and leaves the cursor at column x + w of that row,  *)
(* with insert mode off or on.                                             *)
C30_PrintAdvances == [][PrintsOneCluster => ClusterPrinted]_vars

(* the same with insert mode off and no wrap pending *)
C30_InsertOffNoWrap ==
    [][(PrintsOneCluster /\ ~state.insert /\ ~state.wrap_next) => ClusterPrinted]_vars

(* with insert mode on the cluster is written at the cursor, the cells     *)
(* from there on move right, and the cursor stays where it was             *)
C30_InsertKeepsCursor ==
    [][(PrintsOneCluster /\ state.insert)
          => /\ CellAt(state', state.cursor.x, state.cursor.y).text = PendingPrint(performer)
             /\ state'.cursor = state.cursor]_vars


----------------------------------------------------------------------------
(* The Parser alone: slices parsed in streaming mode and by parse_first,   *)
(* one call after the other on the same Parser.                            *)

MaxFirstSteps == 2

FirstBytes == {"ESC", "[", "1", ";", "m"}

(* the slices of one to three bytes *)
FirstSlices == UNION {[1 .. n -> FirstBytes] : n \in 1 .. 3}

(* Parser::parse: every byte of the slice goes through the state machine;  *)
(* [parser |-> the Parser after the call, actions |-> the actions handed   *)
(* to the callback, in order]                                              *)
RECURSIVE parse(_, _)
parse(p, bytes) ==
    IF bytes = <<>> THEN [parser |-> p, actions |-> <<>>]
    ELSE LET r == parse_byte(p, Head(bytes))
             rest == parse(r.parser, Tail(bytes))
         IN  [parser |-> rest.parser, actions |-> r.actions \o rest.actions]

(* the loop of parse_first from index idx on: the callback keeps the first *)
(* action it is handed, and the loop breaks after the byte that gave it    *)
RECURSIVE parse_first_loop(_, _, _)
parse_first_loop(p, bytes, idx) ==
    IF idx >= Len(bytes) THEN [parser |-> p, first |-> None]
    ELSE LET r == parse_byte(p, bytes[idx + 1])
         IN  IF r.actions /= <<>>
                THEN [parser |-> r.parser,
                      first |-> Some([action |-> Head(r.actions), len |-> idx + 1])]
             ELSE parse_first_loop(r.parser, bytes, idx + 1)

(* parse_first that goes on feeding the slice after the first action *)
parse_first_NoBreak(p, bytes) ==
    [parse_first_loop(p, bytes, 0) EXCEPT !.parser = parse(p, bytes).parser]

(* Parser::parse_first: [parser |-> the Parser after the call, first |->   *)
(* the returned Option<(Action, usize)>]                                   *)
parse_first(p, bytes) == parse_first_loop(p, bytes, 0)

InitFirst == InitWith({2}, {2}, {0})

(* parse_as_vec on a slice of one byte *)
ParseAsVec(r, bytes) ==
    /\ parser' = r.parser
    /\ last' = [bytes |-> bytes, k |-> "Parse", actions |-> r.actions]

ParseSlice ==
    /\ steps < MaxFirstSteps
    /\ Idle
    /\ \E b \in FirstBytes : ParseAsVec(parse(parser, <<b>>), <<b>>)
    /\ steps' = steps + 1
    /\ UNCHANGED <<state, performer, host, result, ref, fed, wire, mux>>

ParseFirstReturns(r, bytes) ==
    /\ parser' = r.parser
    /\ last' = [bytes |-> bytes, k |-> "ParseFirst", first |-> r.first]

ParseFirst ==
    /\ steps < MaxFirstSteps
    /\ Idle
    /\ \E bytes \in FirstSlices : ParseFirstReturns(parse_first(parser, bytes), bytes)
    /\ steps' = steps + 1
    /\ UNCHANGED <<state, performer, host, result, ref, fed, wire, mux>>

NextFirst == ParseSlice \/ ParseFirst

SpecFirst == InitFirst /\ [][NextFirst]_vars

(* the lengths of the prefixes of bytes after which streaming from p has   *)
(* emitted an action                                                       *)
EmittingPrefixes(p, bytes) ==
    {n \in 1 .. Len(bytes) : parse(p, SubSeq(bytes, 1, n)).actions /= <<>>}

(* C23: parse_first returns None exactly when streaming the slice from the *)
(* same parser state emits no action; otherwise it returns the first       *)
(* action streaming emits and the length of the shortest prefix after      *)
(* which streaming has emitted one, and the Parser is left as streaming    *)
(* that prefix leaves it: no later byte was consumed.                      *)
C23_ParseFirstAgrees ==
    [][(steps' = steps + 1 /\ last'.k = "ParseFirst")
          => LET bytes == last'.bytes
                 streamed == parse(parser, bytes).actions
                 emitting == EmittingPrefixes(parser, bytes)
             IN  IF streamed = <<>>
                    THEN last'.first = None /\ parser' = parse(parser, bytes).parser
                 ELSE /\ IsSome(last'.first)
                      /\ Unwrap(last'.first).action = streamed[1]
                      /\ Unwrap(last'.first).len \in emitting
                      /\ \A n \in emitting : Unwrap(last'.first).len <= n
                      /\ parser' = parse(parser, SubSeq(bytes, 1, Unwrap(last'.first).len)).parser
      ]_vars

(* the Parser is inside a CSI sequence and the slice "1 m ESC" is parsed:   *)
(* the final byte m ends the sequence, its first action is returned with   *)
(* length 2 and the ESC after it is not consumed                           *)
C23_Witness ==
    /\ last.k = "ParseFirst"
    /\ last.bytes = <<"1", "m", "ESC">>
    /\ IsSome(last.first)
    /\ Unwrap(last.first).len = 2
    /\ Unwrap(last.first).action.k = "CSI"
    /\ parser = ParserNew


----------------------------------------------------------------------------
(* The frames of the mux protocol (server/codec.rs).  A u64 is modelled as *)
(* [v |-> bits 0..62 as a number, msb |-> bit 63]; the numbers of the      *)
(* model stay below 2^28 (four groups of seven bits).  Bytes are numbers   *)
(* 0..255.                                                                 *)

U64(v) == [v |-> v, msb |-> FALSE]

RECURSIVE ShiftRight7(_, _)
ShiftRight7(v, groups) == IF groups = 0 THEN v ELSE ShiftRight7(v \div 128, groups - 1)

RECURSIVE ShiftLeft7(_, _)
ShiftLeft7(v, groups) == IF groups = 0 THEN v ELSE ShiftLeft7(v * 128, groups - 1)

(* leb128::write::unsigned for a value with bit 63 clear *)
RECURSIVE leb128_write_low(_)
leb128_write_low(v) ==
    IF v < 128 THEN <<v>> ELSE <<(v % 128) + 128>> \o leb128_write_low(v \div 128)

(* leb128::write::unsigned: seven bits a byte, low bits first, the high    *)
(* bit of a byte set when more bytes follow; a value with bit 63 set takes *)
(* nine bytes for bits 0..62 and a tenth byte 1                            *)
leb128_write(value) ==
    IF value.msb
       THEN [i \in 1 .. 9 |-> (ShiftRight7(value.v, i - 1) % 128) + 128] \o <<1>>
    ELSE leb128_write_low(value.v)

(* leb128::read::unsigned from position pos (0-based) of bytes, with the   *)
(* groups read so far in acc: [k |-> "Ok", value, pos] with pos the        *)
(* position after the last byte read, [k |-> "Eof"] when the bytes end     *)
(* first, [k |-> "Overflow"] when a bit beyond bit 63 is set               *)
RECURSIVE leb128_read_from(_, _, _, _)
leb128_read_from(bytes, pos, group, acc) ==
    IF pos >= Len(bytes) THEN [k |-> "Eof"]
    ELSE LET byte == bytes[pos + 1]
             low_bits == byte % 128
             more == byte >= 128
         IN  IF group = 9 /\ byte /= 0 /\ byte /= 1 THEN [k |-> "Overflow"]
             ELSE IF low_bits /= 0 /\ group < 9 /\ group >= 4
                THEN [k |-> "OutOfRange"]
             ELSE LET sum == IF group = 9 THEN [acc EXCEPT !.msb = (low_bits = 1)]
                             ELSE [acc EXCEPT !.v = @ + ShiftLeft7(low_bits, group)]
                  IN  IF more THEN leb128_read_from(bytes, pos + 1, group + 1, sum)
                      ELSE [pos |-> pos + 1, k |-> "Ok", value |-> sum]

leb128_read(bytes, pos) == leb128_read_from(bytes, pos, 0, U64(0))

(* encoded_length: the number of bytes of the leb128 form of value *)
encoded_length(value) == Len(leb128_write(value))

(* value | COMPRESSED_MASK, value & COMPRESSED_MASK and value & !COMPRESSED_MASK *)
WithCompressedMask(value) == [value EXCEPT !.msb = TRUE]
HasCompressedMask(value) == value.msb
WithoutCompressedMask(value) == [value EXCEPT !.msb = FALSE]

(* encode_raw with the compressed flag left out of the length *)
encode_raw_NoMask(ident, serial, data, is_compressed) ==
    LET len == Len(data) + encoded_length(ident) + encoded_length(serial)
    IN  leb128_write(U64(len)) \o leb128_write(serial) \o leb128_write(ident) \o data

(* encode_raw: the bytes handed to w.write_all *)
encode_raw(ident, serial, data, is_compressed) ==
    LET len == Len(data) + encoded_length(ident) + encoded_length(serial)
        masked_len == IF is_compressed THEN WithCompressedMask(U64(len)) ELSE U64(len)
    IN  leb128_write(masked_len) \o leb128_write(serial) \o leb128_write(ident) \o data

(* read_u64: an IoError of the leb128 reader is passed on, its other       *)
(* errors become an io::Error of kind Other                                *)
read_u64_result(r) ==
    CASE r.k = "Ok" -> r
      [] r.k = "Eof" -> [kind |-> "UnexpectedEof", k |-> "Err"]
      [] OTHER -> [kind |-> "Other", k |-> "Err"]

read_u64(bytes, pos) == read_u64_result(leb128_read(bytes, pos))

(* the end of decode_raw: the data behind the three numbers read *)
decode_raw_data(bytes, n, is_compressed, serial, ident, header) ==
    IF n < header THEN [k |-> "Fault"]
    ELSE IF ident.pos + (n - header) > Len(bytes)
       THEN [kind |-> "UnexpectedEof", k |-> "Err"]
    ELSE [pos |-> ident.pos + (n - header),
          k |-> "Ok",
          decoded |-> [ident |-> ident.value, serial |-> serial.value,
                       data |-> SubSeq(bytes, ident.pos + 1, ident.pos + (n - header)),
                       is_compressed |-> is_compressed]]

decode_raw_ident(bytes, len, serial, ident) ==
    IF ident.k /= "Ok" THEN ident
    ELSE decode_raw_data(bytes, WithoutCompressedMask(len.value).v,
                         HasCompressedMask(len.value), serial, ident,
                         encoded_length(ident.value) + encoded_length(serial.value))

decode_raw_serial(bytes, len, serial) ==
    IF serial.k /= "Ok" THEN serial
    ELSE decode_raw_ident(bytes, len, serial, read_u64(bytes, serial.pos))

decode_raw_len(bytes, len) ==
    IF len.k /= "Ok" THEN len
    ELSE decode_raw_serial(bytes, len, read_u64(bytes, len.pos))

(* decode_raw on a reader that holds bytes from position pos on:           *)
(* [k |-> "Ok", decoded, pos] with pos the position after the frame,       *)
(* [k |-> "Err", kind], or [k |-> "Fault"] when the length is smaller than *)
(* the header it must cover (the subtraction underflows: the call does not *)
(* return a frame)                                                         *)
decode_raw(bytes, pos) == decode_raw_len(bytes, read_u64(bytes, pos))

(* the identifying numbers of the pdu! list *)
PduIdents == {0, 1, 2, 3, 4, 7, 8, 9, 10, 11, 12, 13, 14, 17, 18, 19, 20, 21}

COMPRESS_THRESH == 32

(* a Pdu is Pdu::Invalid{ident} or one of the listed structs, given by its *)
(* identifying number and the bytes of its serialized fields               *)
PduInvalid(ident) == [k |-> "Invalid", ident |-> ident]
PduStruct(ident, body) == [k |-> "Struct", ident |-> ident, body |-> body]
Ping == PduStruct(1, <<>>)
Pong == PduStruct(2, <<>>)

(* serialize: structs of at most COMPRESS_THRESH bytes go out uncompressed *)
serialize(s) == [data |-> s.body, is_compressed |-> FALSE]

(* deserialize: data marked compressed that is no zstd stream is an error  *)
deserialize(ident, data, is_compressed) ==
    IF is_compressed THEN [kind |-> "Other", k |-> "Err"]
    ELSE [k |-> "Ok", pdu |-> PduStruct(ident, data)]

(* Pdu::encode that writes a frame for Pdu::Invalid too *)
pdu_encode_Any(pdu, serial) ==
    [bytes |-> IF pdu.k = "Invalid" THEN encode_raw(pdu.ident, serial, <<>>, FALSE)
               ELSE encode_raw(U64(pdu.ident), serial, serialize(pdu).data, FALSE),
     k |-> "Ok"]

(* Pdu::encode: the bytes written to w, or the error *)
pdu_encode(pdu, serial) ==
    IF pdu.k = "Invalid" THEN [kind |-> "Other", bytes |-> <<>>, k |-> "Err"]
    ELSE LET s == serialize(pdu)
         IN  [bytes |-> encode_raw(U64(pdu.ident), serial, s.data, s.is_compressed), k |-> "Ok"]

pdu_deserialized(r, d) ==
    IF d.k /= "Ok" THEN d
    ELSE [pos |-> r.pos, k |-> "Ok",
          decoded |-> [serial |-> r.decoded.serial, pdu |-> d.pdu]]

(* the match of Pdu::decode without its `_` arm: an unknown identifier is  *)
(* an error                                                                *)
pdu_decode_Strict(r) ==
    IF r.k /= "Ok" THEN r
    ELSE IF ~r.decoded.ident.msb /\ r.decoded.ident.v \in PduIdents
       THEN pdu_deserialized(r, deserialize(r.decoded.ident.v, r.decoded.data,
                                            r.decoded.is_compressed))
    ELSE [kind |-> "Other", k |-> "Err"]

(* the match of Pdu::decode on what decode_raw returned *)
pdu_decode_match(r) ==
    IF r.k /= "Ok" THEN r
    ELSE IF ~r.decoded.ident.msb /\ r.decoded.ident.v \in PduIdents
       THEN pdu_deserialized(r, deserialize(r.decoded.ident.v, r.decoded.data,
                                            r.decoded.is_compressed))
    ELSE [pos |-> r.pos, k |-> "Ok",
          decoded |-> [serial |-> r.decoded.serial,
                       pdu |-> PduInvalid(r.decoded.ident)]]

(* Pdu::decode on a reader that holds bytes from position pos on *)
pdu_decode(bytes, pos) == pdu_decode_match(decode_raw(bytes, pos))

(* ptr::copy_nonoverlapping(buffer + consumed, buffer, remain) when the    *)
(* two ranges overlap, in a build that copies from the last byte down: the *)
(* byte that lands at index i (0-based)                                    *)
RECURSIVE CopiedDownwards(_, _, _, _)
CopiedDownwards(buffer, consumed, remain, i) ==
    IF consumed + i >= remain THEN buffer[consumed + i + 1]
    ELSE CopiedDownwards(buffer, consumed, remain, consumed + i)

(* the first remain bytes of the buffer after the copy.  The ranges        *)
(* overlap when remain > consumed, and the copy is then undefined: the     *)
(* build copies upwards, which moves the bytes intact, or downwards        *)
CopiedToFront(buffer, consumed, copy) ==
    LET remain == Len(buffer) - consumed
    IN  IF remain <= consumed \/ copy = "upwards"
           THEN SubSeq(buffer, consumed + 1, Len(buffer))
        ELSE [i \in 1 .. remain |-> CopiedDownwards(buffer, consumed, remain, i - 1)]

stream_decode_match(buffer, r, copy) ==
    CASE r.k = "Ok" ->
           [buffer |-> CopiedToFront(buffer, r.pos, copy),
            ret |-> [k |-> "Some", decoded |-> r.decoded]]
      [] r.k = "Err" /\ r.kind \in {"UnexpectedEof", "WouldBlock"} ->
           [buffer |-> buffer, ret |-> [k |-> "None"]]
      [] OTHER -> [buffer |-> buffer, ret |-> r]

(* Pdu::stream_decode: [ret |-> the returned value, buffer |-> the buffer  *)
(* after the call]                                                         *)
stream_decode(buffer, copy) == stream_decode_match(buffer, pdu_decode(buffer, 0), copy)

(* Pdu::try_read_and_decode on a non-blocking reader that has the first    *)
(* avail bytes of stream at hand and is at end of file when the stream is  *)
(* closed and empty: [ret, buffer, stream].  One read takes all the bytes  *)
(* at hand (they are fewer than the 4096 the call asks for).               *)
RECURSIVE try_read_and_decode(_, _, _, _, _)
RECURSIVE try_read_and_decode_read(_, _, _, _, _, _)
try_read_and_decode_read(stream, avail, closed, buffer, copy, d) ==
    IF d.ret.k /= "None" THEN [buffer |-> d.buffer, ret |-> d.ret, stream |-> stream]
    ELSE IF avail = 0
       THEN [buffer |-> buffer,
             ret |-> IF closed /\ stream = <<>>
                        THEN [kind |-> "UnexpectedEof", k |-> "Err"]
                     ELSE [k |-> "None"], stream |-> stream]
    ELSE try_read_and_decode(SubSeq(stream, avail + 1, Len(stream)), 0, closed,
                             buffer \o SubSeq(stream, 1, avail), copy)

try_read_and_decode(stream, avail, closed, buffer, copy) ==
    try_read_and_decode_read(stream, avail, closed, buffer, copy,
                             stream_decode(buffer, copy))

----------------------------------------------------------------------------
(* One mux connection: a writer that encodes frames onto the stream and a  *)
(* reader.  wire.stream holds the bytes written and not yet read, the      *)
(* first wire.avail of them have reached the reader; wire.buffer is the    *)
(* reader's Vec<u8>; wire.sent lists the frames written whose decoding has *)
(* not been returned yet, wire.count the frames written so far.            *)

MaxFrames == 2

OpenWire ==
    [open |-> TRUE, buffer |-> <<>>, stream |-> <<>>, avail |-> 0, closed |-> FALSE,
     sent |-> <<>>, count |-> 0]

InitWire ==
    /\ NewTerminal({2}, {2}, {0})
    /\ parser = ParserNew
    /\ performer = None
    /\ host = HostNew
    /\ result = NoResult
    /\ last = [k |-> "New"]
    /\ steps = 0
    /\ ref = NoRef
    /\ fed = None
    /\ wire = OpenWire
    /\ mux = NoMux

(* a payload of n bytes, no two neighbours alike *)
Payload(n) == [i \in 1 .. n |-> 96 + (i % 7)]

Frame(ident, serial, data, is_compressed) ==
    [ident |-> ident, serial |-> serial, data |-> data, is_compressed |-> is_compressed]

FrameBytes(f) == encode_raw(f.ident, f.serial, f.data, f.is_compressed)

Writable == wire.open /\ ~wire.closed /\ wire.count < MaxFrames /\ Running

Written(bytes, frames) ==
    wire' = [wire EXCEPT !.stream = @ \o bytes, !.sent = @ \o frames,
                         !.count = @ + Len(frames)]

(* encode_raw(ident, serial, data, is_compressed, w) *)
EncodeRaw(idents, serials, lens) ==
    /\ Writable
    /\ \E ident \in idents, serial \in serials, n \in lens, is_compressed \in BOOLEAN :
          /\ Written(encode_raw(U64(ident), U64(serial), Payload(n), is_compressed),
                     <<Frame(U64(ident), U64(serial), Payload(n), is_compressed)>>)
          /\ last' = [k |-> "EncodeRaw", len |-> n, ident |-> ident,
                      serial |-> serial, is_compressed |-> is_compressed]
    /\ UNCHANGED <<state, parser, performer, host, result, steps, ref, fed, mux>>

PduEncodeReturns(pdu, serial, r) ==
    /\ Written(r.bytes,
               IF r.k /= "Ok" THEN <<>>
               ELSE IF pdu.k = "Invalid" THEN <<Frame(pdu.ident, U64(serial), <<>>, FALSE)>>
               ELSE <<Frame(U64(pdu.ident), U64(serial), serialize(pdu).data,
                            serialize(pdu).is_compressed)>>)
    /\ last' = [k |-> "Encode", serial |-> serial, pdu |-> pdu, ret |-> r.k,
                wrote |-> r.bytes]

(* pdu.encode(w, serial) *)
PduEncode(pdus, serials) ==
    /\ Writable
    /\ \E pdu \in pdus, serial \in serials : 
          PduEncodeReturns(pdu, serial, pdu_encode(pdu, U64(serial)))
    /\ UNCHANGED <<state, parser, performer, host, result, steps, ref, fed, mux>>

(* the writer is dropped: the reader finds end of file behind the bytes    *)
(* written                                                                 *)
CloseWriter ==
    /\ wire.open /\ ~wire.closed /\ Running
    /\ wire' = [wire EXCEPT !.closed = TRUE]
    /\ last' = [k |-> "Close"]
    /\ UNCHANGED <<state, parser, performer, host, result, steps, ref, fed, mux>>

(* more of the bytes written reach the reader *)
Arrive ==
    /\ wire.open /\ Running
    /\ wire.avail < Len(wire.stream)
    /\ \E n \in {1, 2, Len(wire.stream)} :
          wire' = [wire EXCEPT !.avail = Min(@ + n, Len(wire.stream))]
    /\ last' = [k |-> "Arrive"]
    /\ UNCHANGED <<state, parser, performer, host, result, steps, ref, fed, mux>>

CodecReturns(call, ret) ==
    result' = [write_failed |-> FALSE, call |-> call,
               returned |-> IF ret.k = "Fault" THEN "Panic" ELSE ret.k]

(* the frames still to be returned once the call has returned ret *)
Delivered(ret) == IF ret.k = "Some" /\ wire.sent /= <<>> THEN Tail(wire.sent) ELSE wire.sent

DecodeRawReturns(r) ==
    /\ wire' = [wire EXCEPT !.stream = IF r.k = "Ok" THEN SubSeq(@, r.pos + 1, Len(@)) ELSE @,
                            !.avail = IF r.k = "Ok" THEN Max(@ - r.pos, 0) ELSE @,
                            !.sent = IF r.k = "Ok" /\ @ /= <<>> THEN Tail(@) ELSE @]
    /\ last' = [k |-> "DecodeRaw", ret |-> r, frames |-> wire.sent]
    /\ CodecReturns("decode_raw", r)

(* decode_raw(r) on a reader over the bytes written *)
DecodeRaw ==
    /\ wire.open /\ Running
    /\ DecodeRawReturns(decode_raw(wire.stream, 0))
    /\ UNCHANGED <<state, parser, performer, host, steps, ref, fed, mux>>

PduDecodeReturns(r) ==
    /\ wire' = [wire EXCEPT !.stream = IF r.k = "Ok" THEN SubSeq(@, r.pos + 1, Len(@)) ELSE @,
                            !.avail = IF r.k = "Ok" THEN Max(@ - r.pos, 0) ELSE @,
                            !.sent = IF r.k = "Ok" /\ @ /= <<>> THEN Tail(@) ELSE @]
    /\ last' = [k |-> "Decode", ret |-> r, frames |-> wire.sent]
    /\ CodecReturns("decode", r)

(* Pdu::decode(r) on a reader over the bytes written *)
PduDecode ==
    /\ wire.open /\ Running
    /\ PduDecodeReturns(pdu_decode(wire.stream, 0))
    /\ UNCHANGED <<state, parser, performer, host, steps, ref, fed, mux>>

StreamDecodeReturns(r, copy) ==
    /\ wire' = [wire EXCEPT !.buffer = r.buffer, !.sent = Delivered(r.ret)]
    /\ last' = [k |-> "StreamDecode", copy |-> copy, ret |-> r.ret, frames |-> wire.sent]
    /\ CodecReturns("stream_decode", r.ret)

(* Pdu::stream_decode(&mut buffer) *)
StreamDecode ==
    /\ wire.open /\ Running
    /\ \E copy \in {"upwards", "downwards"} :
          StreamDecodeReturns(stream_decode(wire.buffer, copy), copy)
    /\ UNCHANGED <<state, parser, performer, host, steps, ref, fed, mux>>

TryReadReturns(r, copy) ==
    /\ wire' = [wire EXCEPT !.buffer = r.buffer, !.stream = r.stream,
                            !.avail = IF Len(r.stream) < Len(wire.stream) THEN 0 ELSE @,
                            !.sent = Delivered(r.ret)]
    /\ last' = [k |-> "TryRead", copy |-> copy, ret |-> r.ret, frames |-> wire.sent]
    /\ CodecReturns("try_read_and_decode", r.ret)

(* Pdu::try_read_and_decode(&mut r, &mut buffer) *)
TryReadAndDecode ==
    /\ wire.open /\ Running
    /\ \E copy \in {"upwards", "downwards"} :
          TryReadReturns(try_read_and_decode(wire.stream, wire.avail, wire.closed,
                                             wire.buffer, copy), copy)
    /\ UNCHANGED <<state, parser, performer, host, steps, ref, fed, mux>>


----------------------------------------------------------------------------
(* Frames written and decoded one at a time from the bytes written *)

RawIdents == {5, 200}
RawSerials == {1, 300}

(* data lengths on both sides of the step of the length prefix from one    *)
(* byte to two                                                             *)
RawLens == {0, 125, 126}

FramePdus == {Ping, Pong, PduStruct(9, <<7, 8>>), PduInvalid(U64(5)), PduInvalid(U64(200))}

NextFrames ==
    \/ EncodeRaw(RawIdents, RawSerials, RawLens)
    \/ PduEncode(FramePdus, {1})
    \/ DecodeRaw
    \/ PduDecode

SpecFrames == InitWire /\ [][NextFrames]_vars

(* C24: decode_raw on the bytes encode_raw wrote for ident, serial, data   *)
(* and the compressed flag returns that ident, serial, data and flag, and  *)
(* has read exactly those bytes: what was written after them is still to   *)
(* be read.                                                                *)
C24_FrameRoundTrip ==
    [][(last'.k = "DecodeRaw" /\ last'.frames /= <<>>)
          => LET f == Head(last'.frames)
             IN  /\ last'.ret.k = "Ok"
                 /\ last'.ret.decoded = f
                 /\ last'.ret.pos = Len(FrameBytes(f))
                 /\ wire.stream = FrameBytes(f) \o wire'.stream]_vars

(* a compressed frame of 126 data bytes, whose length prefix takes ten     *)
(* bytes, was decoded in front of another frame                            *)
C24_Witness ==
    /\ last.k = "DecodeRaw"
    /\ last.ret.k = "Ok"
    /\ last.ret.decoded.is_compressed
    /\ last.ret.decoded.ident = U64(200)
    /\ Len(last.ret.decoded.data) = 126
    /\ last.ret.pos = 10 + 2 + 2 + 126
    /\ wire.stream /= <<>>

(* C26: Pdu::decode of a frame whose ident is none of the defined numbers  *)
(* returns Ok with Pdu::Invalid{ident} of that ident and the serial of the *)
(* frame, and has read the whole frame; Pdu::encode of a Pdu::Invalid      *)
(* returns an error and writes nothing.                                    *)
C26_UnknownIdent ==
    /\ [][(last'.k = "Decode" /\ last'.frames /= <<>>
             /\ Head(last'.frames).ident.v \notin PduIdents)
            => LET f == Head(last'.frames)
               IN  /\ last'.ret.k = "Ok"
                   /\ last'.ret.decoded = [serial |-> f.serial, pdu |-> PduInvalid(f.ident)]
                   /\ wire.stream = FrameBytes(f) \o wire'.stream]_vars
    /\ [][(last'.k = "Encode" /\ last' /= last /\ last'.pdu.k = "Invalid")
            => /\ last'.ret = "Err"
               /\ wire' = wire]_vars

(* a frame of ident 200 and serial 300 was decoded as Pdu::Invalid in      *)
(* front of another frame                                                  *)
C26_Witness ==
    /\ last.k = "Decode"
    /\ last.ret.k = "Ok"
    /\ last.ret.decoded = [serial |-> U64(300), pdu |-> PduInvalid(U64(200))]
    /\ Len(Head(last.frames).data) = 126
    /\ wire.stream /= <<>>


----------------------------------------------------------------------------
(* Frames read through a buffer: the bytes written reach the reader in     *)
(* pieces, and the reader calls try_read_and_decode and stream_decode.     *)

MuxPdus == {Ping, Pong, PduStruct(9, <<7, 8>>)}

NextMux ==
    \/ EncodeRaw({200}, {3}, {2})
    \/ PduEncode(MuxPdus, {1, 2})
    \/ CloseWriter
    \/ Arrive
    \/ StreamDecode
    \/ TryReadAndDecode

SpecMux == InitWire /\ [][NextMux]_vars

(* what decoding the frame f is to return *)
DecodedFrame(f) ==
    [serial |-> f.serial,
     pdu |-> IF f.ident.v \in PduIdents THEN PduStruct(f.ident.v, f.data)
             ELSE PduInvalid(f.ident)]

RECURSIVE AllFrameBytes(_)
AllFrameBytes(frames) ==
    IF frames = <<>> THEN <<>> ELSE FrameBytes(Head(frames)) \o AllFrameBytes(Tail(frames))

IsPrefix(s, t) == Len(s) <= Len(t) /\ SubSeq(t, 1, Len(s)) = s

(* the buffer holds less than one frame: the first bytes of the next frame *)
(* to come, or nothing                                                     *)
HoldsProperPrefix ==
    IF wire.sent = <<>> THEN wire.buffer = <<>>
    ELSE /\ IsPrefix(wire.buffer, FrameBytes(Head(wire.sent)))
         /\ Len(wire.buffer) < Len(FrameBytes(Head(wire.sent)))

(* a call of the reader returns *)
ReaderReturns == last'.k \in {"TryRead", "StreamDecode"} /\ last'.frames = wire.sent

(* C25: the frames written are returned in the order written, each once,   *)
(* with its serial; a call that returns a frame takes exactly the bytes of *)
(* that frame from the front of what is buffered and keeps every byte      *)
(* behind them; stream_decode on a buffer that holds less than one frame   *)
(* returns Ok(None) and leaves the buffer as it was; at end of file with   *)
(* less than one frame buffered try_read_and_decode fails with             *)
(* UnexpectedEof.                                                          *)
C25_StreamDecodeInOrder ==
    /\ [](wire.buffer \o wire.stream = AllFrameBytes(wire.sent))
    /\ [][(ReaderReturns /\ last'.ret.k = "Some")
            => /\ wire.sent /= <<>>
               /\ last'.ret.decoded = DecodedFrame(Head(wire.sent))
               /\ wire'.sent = Tail(wire.sent)
               /\ wire.buffer \o wire.stream
                     = FrameBytes(Head(wire.sent)) \o wire'.buffer \o wire'.stream]_vars
    /\ [][(ReaderReturns /\ last'.k = "StreamDecode" /\ HoldsProperPrefix)
            => last'.ret.k = "None" /\ wire'.buffer = wire.buffer]_vars
    /\ [][(ReaderReturns /\ last'.k = "TryRead" /\ wire.closed /\ wire.stream = <<>>
             /\ HoldsProperPrefix)
            => last'.ret = [kind |-> "UnexpectedEof", k |-> "Err"]]_vars

(* the same for the calls whose copy inside the buffer moved the bytes     *)
(* upwards or had no overlap                                               *)
C25_WhenCopiedUpwards ==
    [][(ReaderReturns /\ last'.ret.k = "Some" /\ last'.copy = "upwards"
          /\ wire.buffer \o wire.stream = AllFrameBytes(wire.sent))
         => /\ wire.sent /= <<>>
            /\ last'.ret.decoded = DecodedFrame(Head(wire.sent))
            /\ wire'.sent = Tail(wire.sent)
            /\ wire'.buffer \o wire'.stream = AllFrameBytes(wire'.sent)]_vars

----------------------------------------------------------------------------
(* Insert mode: batches of clusters printed into a row that already holds  *)
(* text, with the cursor at the start, in the middle and at the end.       *)

MaxInsertSteps == 6

InitInsert == InitWith({2}, {4}, {0})

InsertCursorOps == {[col |-> c, op |-> "CharacterAbsolute"] : c \in {2, 4}}

NextInsert ==
    \/ PrintChars({"a", "b", WideChar}, MaxInsertSteps)
    \/ Control({"CarriageReturn"}, MaxInsertSteps)
    \/ CsiCursorDispatch(InsertCursorOps, MaxInsertSteps)
    \/ CsiModeDispatch(InsertModeOps, MaxInsertSteps)
    \/ DropPerformer

SpecInsert == InitInsert /\ [][NextInsert]_vars

(* the columns the first i clusters of gs take *)
RECURSIVE BatchWidth(_, _)
BatchWidth(gs, i) ==
    IF i = 0 THEN 0
    ELSE BatchWidth(gs, i - 1) + Max(unicode_column_width(gs[i]), 1)

(* this step flushes a batch of clusters with insert mode on *)
InsertFlush == DropStep /\ state.insert /\ PendingPrint(performer) /= <<>>

(* the cells from column x on of row y stand w columns further right,      *)
(* those that still fit in the row                                         *)
ShiftedRight(old, new, x, y, w) ==
    \A c \in x .. Screen(old).physical_cols - 1 :
        c + w < Screen(old).physical_cols => CellAt(new, c + w, y) = CellAt(old, c, y)

(* each cluster of gs that starts inside the row stands behind the ones    *)
(* before it, from column x on                                             *)
ClustersWritten(new, gs, x, y) ==
    \A i \in 1 .. Len(gs) :
        x + BatchWidth(gs, i - 1) < Screen(new).physical_cols
            => CellAt(new, x + BatchWidth(gs, i - 1), y).text = gs[i]

(* C31: with insert mode on, printing a batch of clusters at cursor column *)
(* x moves the cells at columns >= x right by the width of the batch and   *)
(* writes the clusters into the freed columns: every cell that was at a    *)
(* column >= x is still there, in the same order, right of the clusters    *)
(* (unless pushed past the right margin); no wrap or line feed happens:    *)
(* the cursor, the pending wrap, the other rows and the number of lines    *)
(* are as before.                                                          *)
C31_InsertShifts ==
    [][InsertFlush
         => /\ ShiftedRight(state, state', state.cursor.x, state.cursor.y,
                            BatchWidth(graphemes(PendingPrint(performer)),
                                       Len(graphemes(PendingPrint(performer)))))
            /\ ClustersWritten(state', graphemes(PendingPrint(performer)),
                               state.cursor.x, state.cursor.y)
            /\ state'.cursor = state.cursor
            /\ state'.wrap_next = state.wrap_next
            /\ Len(Screen(state').lines) = Len(Screen(state).lines)
            /\ \A r \in 0 .. Screen(state).physical_rows - 1 :
                   r /= state.cursor.y => RowCells(state', r) = RowCells(state, r)]_vars

(* a batch of two clusters was inserted at column 1 in front of a "b",     *)
(* which now stands at column 3                                            *)
C31_Witness ==
    /\ last.k = "Drop"
    /\ PendingPrint(Some(last.flushed)) = <<"a", "a">>
    /\ state.insert
    /\ state.cursor = [x |-> 1, y |-> 0]
    /\ RowTexts(state, 0) = << <<"a">>, <<"a">>, <<"a">>, <<"b">> >>

----------------------------------------------------------------------------
(* The clearing variant of the alternate screen switch: text is printed on *)
(* the primary screen, the switch is made, the alternate screen is printed *)
(* on, erased and moved about, and the switch is undone.                   *)

MaxSwitchSteps == 6

InitSwitch == InitWith({2}, {2}, {1})

SwitchModeOps ==
    {[action |-> a, code |-> "ClearAndEnableAlternateScreen"] :
        a \in {"SetDecPrivateMode", "ResetDecPrivateMode"}}
    \cup {[action |-> "SetMode", code |-> "Insert"]}

SwitchCursorOps == {[line |-> 2, col |-> 1, op |-> "Position"]}

SwitchEditOps == {[erase |-> "EraseDisplay", op |-> "EraseInDisplay"]}

NextSwitch ==
    \/ PrintChars({"a", "b"}, MaxSwitchSteps)
    \/ Control({"LineFeed"}, MaxSwitchSteps)
    \/ CsiModeDispatch(SwitchModeOps, MaxSwitchSteps)
    \/ CsiCursorDispatch(SwitchCursorOps, MaxSwitchSteps)
    \/ CsiEditDispatch(SwitchEditOps, MaxSwitchSteps)
    \/ DropPerformer

SpecSwitch == InitSwitch /\ [][NextSwitch]_vars

(* the cells of every line of the primary screen, scrollback included *)
PrimaryCells(t) == [i \in 1 .. Len(t.screen.screen.lines) |-> t.screen.screen.lines[i].cells]

(* the terminal the action of this step is applied to: the pending batch   *)
(* of the Performer has been printed                                       *)
BeforeAction == flush_print(CurrentPerformer).t

SwitchStep(a) ==
    /\ steps' = steps + 1
    /\ last' = CsiMode([action |-> a, code |-> "ClearAndEnableAlternateScreen"])

SavedAs(t) == Some([wrap_next |-> t.wrap_next, insert |-> t.insert, position |-> t.cursor])

(* C32: setting ClearAndEnableAlternateScreen on the primary screen saves  *)
(* the cursor, makes the alternate screen active, puts the cursor at (0,0) *)
(* and blanks the alternate display; while the alternate screen stays      *)
(* active no print, erase or cursor move changes a cell of the primary     *)
(* screen or its saved cursor; resetting the mode makes the primary screen *)
(* active with its cells as they were and the cursor, wrap_next and insert *)
(* as they were saved when the mode was set.                               *)
C32_ClearAndSwitch ==
    /\ [][(SwitchStep("SetDecPrivateMode") /\ ~is_alt_screen_active(BeforeAction))
            => /\ is_alt_screen_active(state')
               /\ state'.cursor = [x |-> 0, y |-> 0]
               /\ \A y \in 0 .. Screen(state').physical_rows - 1 :
                      RowTexts(state', y) = [j \in 1 .. Screen(state').physical_cols |-> <<" ">>]
               /\ PrimaryCells(state') = PrimaryCells(BeforeAction)
               /\ state'.screen.saved_cursor = SavedAs(BeforeAction)]_vars
    /\ [][(is_alt_screen_active(state) /\ is_alt_screen_active(state'))
            => /\ PrimaryCells(state') = PrimaryCells(state)
               /\ state'.screen.saved_cursor = state.screen.saved_cursor]_vars
    /\ [][(SwitchStep("ResetDecPrivateMode") /\ is_alt_screen_active(state))
            => /\ ~is_alt_screen_active(state')
               /\ PrimaryCells(state') = PrimaryCells(state)
               /\ IsSome(state.screen.saved_cursor)
               /\ SavedAs(state') = state.screen.saved_cursor]_vars

(* "ab" was printed on the primary screen, which left a wrap pending; the  *)
(* switch was made, "b" was printed on the alternate screen, and the       *)
(* switch was undone: the primary screen shows "ab" and the wrap is        *)
(* pending again                                                           *)
C32_Witness ==
    /\ last = CsiMode([action |-> "ResetDecPrivateMode",
                       code |-> "ClearAndEnableAlternateScreen"])
    /\ ~is_alt_screen_active(state)
    /\ RowTexts(state, 0) = << <<"a">>, <<"b">> >>
    /\ state.cursor = [x |-> 1, y |-> 0]
    /\ state.wrap_next
    /\ state.screen.alt_screen.lines[1].cells[1].text = <<"b">>

----------------------------------------------------------------------------
(* Selections dragged down and up on three rows, and lines inserted and    *)
(* deleted at the cursor, inside and outside the scroll region.            *)

MaxLineSelSteps == 4

InitLineSel == InitWith({3}, {2}, {0})

LineSelEditOps == {[n |-> 1, op |-> o] : o \in {"DeleteLine", "InsertLine"}}

LineSelCursorOps ==
    {[line |-> l, col |-> 1, op |-> "Position"] : l \in {2, 3}}
    \cup {[top |-> 2, op |-> "SetTopAndBottomMargins", bottom |-> 3]}

NextLineSel ==
    \/ PrintChars({"a"}, MaxLineSelSteps)
    \/ Mouse(DragEvents({0}, {0, 1, 2}), MaxLineSelSteps)
    \/ CsiEditDispatch(LineSelEditOps, MaxLineSelSteps)
    \/ CsiCursorDispatch(LineSelCursorOps, MaxLineSelSteps)
    \/ DropPerformer

SpecLineSel == InitLineSel /\ [][NextLineSel]_vars

(* this step applies DeleteLine or InsertLine *)
LineEditStep ==
    /\ steps' = steps + 1
    /\ last'.k = "CSI" /\ last'.csi.k = "Edit"
    /\ last'.csi.edit.op \in {"DeleteLine", "InsertLine"}

(* the selection of t has a row among the rows from the cursor's to the    *)
(* end of the scroll region                                                *)
SelectionMeetsEditedRows(t) ==
    /\ IsSome(t.selection_range)
    /\ \E row \in t.cursor.y .. t.scroll_region.end - 1 :
          /\ row >= Min(Unwrap(t.selection_range).start.y, Unwrap(t.selection_range).end.y)
          /\ row <= Max(Unwrap(t.selection_range).start.y, Unwrap(t.selection_range).end.y)

(* C33: DeleteLine(n) or InsertLine(n) with the cursor inside the scroll   *)
(* region clears a selection that has a row in [cursor.y, region end),     *)
(* whether its stored start is before or after its end, and keeps a        *)
(* selection that has no row there; with the cursor outside the scroll     *)
(* region the action changes neither the screen nor the selection.         *)
C33_LineEditSelection ==
    [][LineEditStep
         => IF RangeContains(BeforeAction.scroll_region, BeforeAction.cursor.y)
               THEN IF SelectionMeetsEditedRows(BeforeAction)
                       THEN state'.selection_range = None
                       ELSE state'.selection_range = BeforeAction.selection_range
               ELSE /\ state'.selection_range = BeforeAction.selection_range
                    /\ state'.screen = BeforeAction.screen]_vars

(* the same for the selections whose stored start is not after their end *)
C33_WhenDraggedDownward ==
    [][(LineEditStep
          /\ (IsSome(BeforeAction.selection_range)
                => Unwrap(BeforeAction.selection_range).start.y
                      <= Unwrap(BeforeAction.selection_range).end.y))
         => IF RangeContains(BeforeAction.scroll_region, BeforeAction.cursor.y)
               THEN IF SelectionMeetsEditedRows(BeforeAction)
                       THEN state'.selection_range = None
                       ELSE state'.selection_range = BeforeAction.selection_range
               ELSE /\ state'.selection_range = BeforeAction.selection_range
                    /\ state'.screen = BeforeAction.screen]_vars

----------------------------------------------------------------------------
(* A slice consumed by parse_first_as_vec, called again and again on what  *)
(* is left of the slice until it returns None; the next slice goes to the  *)
(* same Parser in whatever state the one before left it.                   *)

MaxChainSteps == 2

(* the loop of parse_first_as_vec from index idx on: it breaks after the   *)
(* first byte that handed actions to the callback, and returns all of them *)
RECURSIVE parse_first_as_vec_loop(_, _, _)
parse_first_as_vec_loop(p, bytes, idx) ==
    IF idx >= Len(bytes) THEN [parser |-> p, first |-> None]
    ELSE LET r == parse_byte(p, bytes[idx + 1])
         IN  IF r.actions /= <<>>
                THEN [parser |-> r.parser,
                      first |-> Some([actions |-> r.actions, len |-> idx + 1])]
             ELSE parse_first_as_vec_loop(r.parser, bytes, idx + 1)

(* parse_first_as_vec that returns the first action only *)
parse_first_as_vec_OneAction(p, bytes) ==
    LET r == parse_first_loop(p, bytes, 0)
    IN  [parser |-> r.parser,
         first |-> IF IsSome(r.first)
                      THEN Some([actions |-> <<Unwrap(r.first).action>>,
                                 len |-> Unwrap(r.first).len])
                   ELSE None]

(* Parser::parse_first_as_vec: [parser |-> the Parser after the call,      *)
(* first |-> the returned Option<(Vec<Action>, usize)>]                    *)
parse_first_as_vec(p, bytes) == parse_first_as_vec_loop(p, bytes, 0)

InitChain == InitWith({2}, {2}, {0})

(* a slice is being consumed and the last call returned Some *)
ChainInProgress == last.k = "ParseFirstAsVec" /\ IsSome(last.first)

(* the call returned r: the caller advances by the returned length and     *)
(* appends the returned actions to those it has                            *)
ParseFirstAsVecReturns(r, start, bytes, pos, actions) ==
    /\ parser' = r.parser
    /\ last' = [parser |-> start, pos |-> pos + (IF IsSome(r.first) THEN Unwrap(r.first).len ELSE 0), bytes |-> bytes,
                k |-> "ParseFirstAsVec",
                actions |-> actions \o (IF IsSome(r.first) THEN Unwrap(r.first).actions
                                        ELSE <<>>),
                first |-> r.first]

(* the first call on a new slice *)
ParseFirstAsVec ==
    /\ steps < MaxChainSteps
    /\ Idle
    /\ ~ChainInProgress
    /\ \E bytes \in FirstSlices :
          ParseFirstAsVecReturns(parse_first_as_vec(parser, bytes), parser, bytes, 0, <<>>)
    /\ steps' = steps + 1
    /\ UNCHANGED <<state, performer, host, result, ref, fed, wire, mux>>

(* the next call, on the part of the slice that is not yet consumed *)
ParseFirstAsVecAgain ==
    /\ Idle
    /\ ChainInProgress
    /\ ParseFirstAsVecReturns(
          parse_first_as_vec(parser, SubSeq(last.bytes, last.pos + 1, Len(last.bytes))),
          last.parser, last.bytes, last.pos, last.actions)
    /\ UNCHANGED <<state, performer, host, result, steps, ref, fed, wire, mux>>

NextChain == ParseFirstAsVec \/ ParseFirstAsVecAgain

SpecChain == InitChain /\ [][NextChain]_vars

(* C34: when the calls of parse_first_as_vec on the remainders of a slice  *)
(* have come to None, the returned vectors put one after the other are the *)
(* actions parse_as_vec gives for the whole slice from the same Parser     *)
(* state, and the Parser is in the state parse_as_vec leaves it in; before *)
(* that they are the actions of the consumed part of the slice.            *)
C34_ChainedEqualsStreaming ==
    last.k = "ParseFirstAsVec"
        => /\ last.actions = parse(last.parser, SubSeq(last.bytes, 1, last.pos)).actions
           /\ last.first = None
                 => /\ last.actions = parse(last.parser, last.bytes).actions
                    /\ parser = parse(last.parser, last.bytes).parser

(* inside a CSI sequence the slice "; m 1" was consumed: the first call    *)
(* returned the two SGR actions of the sequence with length 2, the second  *)
(* the print of "1", the third None                                        *)
C34_Witness ==
    /\ last.k = "ParseFirstAsVec"
    /\ last.first = None
    /\ last.bytes = <<";", "m", "1">>
    /\ last.pos = 3
    /\ Len(last.actions) = 3
    /\ last.actions[1].k = "CSI" /\ last.actions[2].k = "CSI"
    /\ last.actions[3] = PrintAction("1")


----------------------------------------------------------------------------
(* Repeat (REP) after printed characters, with the cursor moved back over  *)
(* them, on a row of four columns.                                         *)

MaxRepeatSteps == 5

InitRepeat == InitWith({2}, {4}, {0})

RepeatEditOps == {[n |-> n, op |-> "Repeat"] : n \in {1, 2}}

RepeatCursorOps == {[col |-> c, op |-> "CharacterAbsolute"] : c \in {1, 2, 3}}

NextRepeat ==
    \/ PrintChars({"a", "b"}, MaxRepeatSteps)
    \/ CsiCursorDispatch(RepeatCursorOps, MaxRepeatSteps)
    \/ CsiEditDispatch(RepeatEditOps, MaxRepeatSteps)
    \/ DropPerformer

SpecRepeat == InitRepeat /\ [][NextRepeat]_vars

(* this step applies Edit::Repeat with the cursor at column 1 or further *)
RepeatStep ==
    /\ steps' = steps + 1
    /\ last'.k = "CSI" /\ last'.csi.k = "Edit" /\ last'.csi.edit.op = "Repeat"
    /\ BeforeAction.cursor.x >= 1

(* the cursor row of old with the cell of column x - 1 copied into the     *)
(* columns x .. x + count - 1 that exist                                   *)
RowWithCopies(old, x, y, count) ==
    [j \in 1 .. Screen(old).physical_cols |->
        IF j - 1 >= x /\ j - 1 < x + count THEN CellAt(old, x - 1, y) ELSE CellAt(old, j - 1, y)]

(* the cursor of old moved right by n columns, clamped to the last column *)
CursorMovedRight(old, n) ==
    [x |-> Min(old.cursor.x + n, Screen(old).physical_cols - 1), y |-> old.cursor.y]

OtherRowsKept(old, new) ==
    /\ Len(Screen(new).lines) = Len(Screen(old).lines)
    /\ \A r \in 0 .. Screen(old).physical_rows - 1 :
          r /= old.cursor.y => RowCells(new, r) = RowCells(old, r)

(* C40: Edit::Repeat(n) with the cursor at column x >= 1 writes exactly n  *)
(* copies of the cell at column x - 1 into the columns x .. x + n - 1 (cut *)
(* off at the right margin), leaves every other cell unchanged, and moves  *)
(* the cursor right by n columns clamped to the last column.               *)
C40_RepeatWritesN ==
    [][RepeatStep
         => /\ RowCells(state', BeforeAction.cursor.y)
                 = RowWithCopies(BeforeAction, BeforeAction.cursor.x, BeforeAction.cursor.y,
                                 last'.csi.edit.n)
            /\ OtherRowsKept(BeforeAction, state')
            /\ state'.cursor = CursorMovedRight(BeforeAction, last'.csi.edit.n)]_vars

(* what the code does: the inclusive range x ..= x + n takes n + 1 columns *)
C40_RepeatWritesOneMore ==
    [][RepeatStep
         => /\ RowCells(state', BeforeAction.cursor.y)
                 = RowWithCopies(BeforeAction, BeforeAction.cursor.x, BeforeAction.cursor.y,
                                 last'.csi.edit.n + 1)
            /\ OtherRowsKept(BeforeAction, state')
            /\ state'.cursor = CursorMovedRight(BeforeAction, last'.csi.edit.n)]_vars


----------------------------------------------------------------------------
(* The columns flush_print hands to set_cell, for the batches, cursor      *)
(* columns and modes of SpecInsert.                                        *)

(* the x + x_offset of each set_cell call of the loop of flush_print, for  *)
(* the clusters gs printed on the terminal t                               *)
RECURSIVE set_cell_columns(_, _, _)
set_cell_columns(t, gs, x_offset) ==
    IF gs = <<>> THEN <<>>
    ELSE <<(IF ~t.insert /\ t.wrap_next THEN new_line(t, TRUE) ELSE t).cursor.x + x_offset>>
         \o set_cell_columns(flush_cluster(t, Head(gs), x_offset).t, Tail(gs),
                             flush_cluster(t, Head(gs), x_offset).x_offset)

(* this step flushes a pending batch of clusters *)
PrintFlush == PendingPrint(performer) /= <<>> /\ PendingPrint(performer') = <<>>

InsideLine(t, cols) ==
    \A i \in 1 .. Len(cols) : cols[i] >= 0 /\ cols[i] <= Screen(t).physical_cols - 1

(* C39: every cell written by flush_print is written at a column index in  *)
(* [0, physical_cols - 1] of the cursor row, for every cursor position, in *)
(* replace mode and in insert mode, and for batches of any number of       *)
(* clusters.                                                               *)
C39_PrintWritesInside ==
    [][PrintFlush
         => InsideLine(state, set_cell_columns(state, graphemes(PendingPrint(performer)), 0))]_vars

(* the same in replace mode only *)
C39_InReplaceMode ==
    [][(PrintFlush /\ ~state.insert)
         => InsideLine(state, set_cell_columns(state, graphemes(PendingPrint(performer)), 0))]_vars


----------------------------------------------------------------------------
(* Margins set with parameters inside and beyond the rows, in either       *)
(* order, between resizes of a terminal of one to three rows.              *)

MaxMarginSteps == 4

InitMargins == InitWith({1, 3}, {2}, {0})

MarginParams == {0, 1, 2, 3, 9}

MarginOps ==
    {[top |-> t, op |-> "SetTopAndBottomMargins", bottom |-> b] :
        t \in MarginParams, b \in MarginParams}

MarginRows == {1, 2, 3}

NextMargins ==
    \/ CsiCursorDispatch(MarginOps, MaxMarginSteps)
    \/ Control({"LineFeed"}, MaxMarginSteps)
    \/ ResizeTo(MarginRows, {2}, MaxMarginSteps)
    \/ DropPerformer

SpecMargins == InitMargins /\ [][NextMargins]_vars

(* C38: after any sequence of SetTopAndBottomMargins actions, with any top *)
(* and bottom parameters (beyond the row count, top greater than bottom),  *)
(* and resizes, the scroll region is a non-empty range inside the screen:  *)
(* 0 <= start < end <= physical_rows.                                      *)
C38_ScrollRegionInside ==
    /\ 0 <= state.scroll_region.start
    /\ state.scroll_region.start < state.scroll_region.end
    /\ state.scroll_region.end <= Screen(state).physical_rows

(* margins given as top 9, bottom 2 on three rows: the region is rows 1..2 *)
C38_Witness ==
    /\ last = CsiCursor([top |-> 9, op |-> "SetTopAndBottomMargins", bottom |-> 2])
    /\ Screen(state).physical_rows = 3
    /\ state.scroll_region = Range(1, 3)


----------------------------------------------------------------------------
(* The viewport scrolled by the wheel, by keys and by scroll_viewport,     *)
(* over a scrollback that fills up, between alternate-screen switches and  *)
(* resizes.                                                                *)

MaxViewSteps == 5

InitView == InitWith({2}, {2}, {2})

ViewKeys == {[c |-> "a", k |-> "Char"], [k |-> "PageUp"], [k |-> "PageDown"]}

ViewKeyMods == {[NoMods EXCEPT !.shift = s] : s \in BOOLEAN}

ViewDeltas == {-3, -1, 1, 3}

NextView ==
    \/ Control({"LineFeed"}, MaxViewSteps)
    \/ CsiModeDispatch(AltModeOps, MaxViewSteps)
    \/ Mouse(WheelEvents, MaxViewSteps)
    \/ KeyWith(ViewKeys, ViewKeyMods, MaxViewSteps)
    \/ ScrollViewport(ViewDeltas, MaxViewSteps)
    \/ ResizeTo({2, 3}, {2}, MaxViewSteps)
    \/ DropPerformer

SpecView == InitView /\ [][NextView]_vars

(* C37: after any sequence of advance calls, key_down, mouse events,       *)
(* scroll_viewport calls, alternate-screen switches and resizes,           *)
(* 0 <= viewport_offset <= (lines of the active screen) - physical_rows;   *)
(* it is 0 whenever the alternate screen is active, and the indexes top of *)
(* set_scroll_viewport and len - height of get_dirty_lines are not below   *)
(* zero.                                                                   *)
C37_ViewportWithinScrollback ==
    /\ 0 <= state.viewport_offset
    /\ state.viewport_offset <= Len(Screen(state).lines) - Screen(state).physical_rows
    /\ is_alt_screen_active(state) => state.viewport_offset = 0
    /\ Len(Screen(state).lines)
          - (Screen(state).physical_rows + state.viewport_offset) >= 0
    /\ (Len(Screen(state).lines) - state.viewport_offset) - Screen(state).physical_rows >= 0

(* scroll_viewport(-3) with one line of scrollback, from offset 0: the     *)
(* viewport stops at the only line there is                                *)
C37_Witness ==
    /\ last.k = "ScrollViewport"
    /\ last.delta = -3
    /\ last.viewport_offset = 0
    /\ ScrollbackLen(Screen(state)) = 1
    /\ state.viewport_offset = 1


----------------------------------------------------------------------------
(* The Mux: tabs, the thread that reads each tab's pty, the executor's     *)
(* channel of tasks and the loop of the owner thread that runs them.       *)
(*                                                                         *)
(* mux.tabs is the key set of Mux::tabs, mux.queue the mpsc channel of the *)
(* executor, mux.readers the position of each reader thread (chunks read   *)
(* so far, left the loop or not), mux.dead what Tab::is_dead answers,      *)
(* mux.applied the chunks handed to each tab's advance_bytes in the order  *)
(* of the calls, mux.lost the chunks whose task found no tab,              *)
(* mux.removed the tabs whose own remove_tab task has run, mux.running     *)
(* whether run_forever has not returned, mux.paste the shared Paste,       *)
(* mux.sent the slices handed to each tab's send_paste and mux.fault       *)
(* whether a task has panicked on the owner thread.                        *)

TabIds == {1, 2}

(* chunks a pty hands to its reader before the end of file *)
MaxChunks == 2

MuxNew ==
    [tabs |-> {}, fault |-> FALSE, running |-> TRUE,
     sent |-> [t \in TabIds |-> <<>>],
     queue |-> <<>>,
     readers |-> [t \in TabIds |-> [done |-> FALSE, started |-> FALSE, read |-> 0]],
     dead |-> [t \in TabIds |-> FALSE],
     applied |-> [t \in TabIds |-> <<>>],
     lost |-> [t \in TabIds |-> {}],
     removed |-> [t \in TabIds |-> FALSE],
     paste |-> None]

InitMux ==
    /\ NewTerminal({2}, {2}, {0})
    /\ parser = ParserNew
    /\ performer = None
    /\ host = HostNew
    /\ result = NoResult
    /\ last = [k |-> "New"]
    /\ steps = 0
    /\ ref = NoRef
    /\ fed = None
    /\ wire = NoWire
    /\ mux = MuxNew

(* the closures handed to the executor *)
AdvanceTask(tab_id, data) == [k |-> "advance_bytes", data |-> data, tab_id |-> tab_id]

RemoveTabTask(tab_id) == [k |-> "remove_tab", data |-> 0, tab_id |-> tab_id]

PasteTask(tab_id) == [k |-> "paste", data |-> 0, tab_id |-> tab_id]

(* MuxExecutor::execute: send the closure down the channel *)
execute(m, f) == [m EXCEPT !.queue = Append(@, f)]

get_tab(m, tab_id) == IF tab_id \in m.tabs THEN Some(tab_id) ELSE None

is_empty(m) == m.tabs = {}

(* Mux::prune_dead_windows, for the tabs: every tab that is_dead leaves    *)
(* the map                                                                 *)
prune_dead_windows(m) == [m EXCEPT !.tabs = {t \in @ : ~m.dead[t]}]

remove_tab(m, tab_id) == prune_dead_windows([m EXCEPT !.tabs = @ \ {tab_id}])

(* Mux::add_tab: insert the tab and spawn the thread that reads its pty *)
add_tab(m, tab_id) ==
    [m EXCEPT !.tabs = @ \cup {tab_id}, !.readers[tab_id].started = TRUE]

TheMux == mux.running /\ ~mux.fault

AddTab ==
    /\ TheMux
    /\ \E tab_id \in TabIds :
          /\ ~mux.readers[tab_id].started
          /\ mux' = add_tab(mux, tab_id)
    /\ UNCHANGED <<state, parser, performer, host, result, last, steps, ref, fed, wire>>

(* the child of a tab exits: Tab::is_dead answers true from now on *)
ChildExits ==
    /\ TheMux
    /\ \E tab_id \in TabIds :
          /\ mux.readers[tab_id].started
          /\ ~mux.dead[tab_id]
          /\ mux' = [mux EXCEPT !.dead[tab_id] = TRUE]
    /\ UNCHANGED <<state, parser, performer, host, result, last, steps, ref, fed, wire>>

(* one turn of the loop of read_from_tab_pty whose read returns Ok(size)   *)
(* with size > 0: the data goes to the executor in a closure               *)
read_from_tab_pty_Ok(m, tab_id) ==
    execute([m EXCEPT !.readers[tab_id].read = @ + 1],
            AdvanceTask(tab_id, m.readers[tab_id].read + 1))

(* the turn whose read returns Ok(0) or Err: the loop is left and the      *)
(* closure that removes the tab goes to the executor                       *)
read_from_tab_pty_Break(m, tab_id) ==
    execute([m EXCEPT !.readers[tab_id].done = TRUE], RemoveTabTask(tab_id))

Reading(tab_id) == mux.readers[tab_id].started /\ ~mux.readers[tab_id].done

ReadFromTabPty ==
    \E tab_id \in TabIds :
        /\ Reading(tab_id)
        /\ mux.readers[tab_id].read < MaxChunks
        /\ mux' = read_from_tab_pty_Ok(mux, tab_id)
        /\ UNCHANGED <<state, parser, performer, host, result, last, steps, ref, fed, wire>>

ReadFromTabPtyEnds ==
    \E tab_id \in TabIds :
        /\ Reading(tab_id)
        /\ mux' = read_from_tab_pty_Break(mux, tab_id)
        /\ UNCHANGED <<state, parser, performer, host, result, last, steps, ref, fed, wire>>


(* A String is kept as its runs of characters: n characters of w bytes     *)
(* each; byte indexes are as in Rust.                                      *)
RECURSIVE text_len(_)
text_len(text) ==
    IF text = <<>> THEN 0 ELSE Head(text).n * Head(text).w + text_len(Tail(text))

(* str::is_char_boundary *)
RECURSIVE is_char_boundary(_, _)
is_char_boundary(text, index) ==
    IF index = 0 THEN TRUE
    ELSE IF text = <<>> THEN FALSE
    ELSE IF index <= Head(text).n * Head(text).w THEN index % Head(text).w = 0
    ELSE is_char_boundary(Tail(text), index - Head(text).n * Head(text).w)

(* &text[begin..end] does not panic *)
SliceOk(text, begin, end) ==
    begin <= end /\ is_char_boundary(text, begin) /\ is_char_boundary(text, end)

PASTE_CHUNK_SIZE == 1024

(* Tab::send_paste: the slice goes to the pty of the tab *)
send_paste(m, tab_id, slice) == [m EXCEPT !.sent[tab_id] = Append(@, slice)]

Panicked(m) == [m EXCEPT !.fault = TRUE]

(* the closure of schedule_next_paste, with the next chunk scheduled       *)
(* behind it when there is more to send                                    *)
schedule_next_paste(m, locked, remain, chunk) ==
    IF ~IsSome(get_tab(m, locked.tab_id)) THEN Panicked(m)
    ELSE IF ~SliceOk(locked.text, locked.offset, locked.offset + chunk) THEN Panicked(m)
    ELSE IF chunk < remain
       THEN execute([send_paste(m, locked.tab_id, Range(locked.offset, locked.offset + chunk))
                        EXCEPT !.paste = Some([locked EXCEPT !.offset = @ + chunk])],
                    PasteTask(locked.tab_id))
    ELSE send_paste(m, locked.tab_id, Range(locked.offset, locked.offset + chunk))

schedule_next_paste_closure(m) ==
    schedule_next_paste(m, Unwrap(m.paste),
                        text_len(Unwrap(m.paste).text) - Unwrap(m.paste).offset,
                        Min(text_len(Unwrap(m.paste).text) - Unwrap(m.paste).offset,
                            PASTE_CHUNK_SIZE))

(* Tab::trickle_paste *)
trickle_paste(m, tab_id, text) ==
    IF text_len(text) <= PASTE_CHUNK_SIZE
       THEN send_paste(m, tab_id, Range(0, text_len(text)))
    ELSE IF ~SliceOk(text, 0, PASTE_CHUNK_SIZE) THEN Panicked(m)
    ELSE execute([send_paste(m, tab_id, Range(0, PASTE_CHUNK_SIZE))
                     EXCEPT !.paste = Some([text |-> text, tab_id |-> tab_id,
                                            offset |-> PASTE_CHUNK_SIZE])],
                 PasteTask(tab_id))

(* the closure f run by the owner thread *)
run_closure(m, f) ==
    CASE f.k = "advance_bytes" ->
           IF IsSome(get_tab(m, f.tab_id))
              THEN [m EXCEPT !.applied[f.tab_id] = Append(@, f.data)]
              ELSE [m EXCEPT !.lost[f.tab_id] = @ \cup {f.data}]
      [] f.k = "remove_tab" -> [remove_tab(m, f.tab_id) EXCEPT !.removed[f.tab_id] = TRUE]
      [] f.k = "paste" -> schedule_next_paste_closure(m)

(* what run_forever does after func(): it returns when the mux is empty;   *)
(* a panic of the closure unwinds it                                       *)
run_forever_after(m) == [m EXCEPT !.running = ~m.fault /\ ~is_empty(m)]

(* one turn of the loop of run_forever: recv a closure and run it *)
RunForever ==
    /\ TheMux
    /\ mux.queue /= <<>>
    /\ mux' = run_forever_after(run_closure([mux EXCEPT !.queue = Tail(@)], Head(mux.queue)))
    /\ UNCHANGED <<state, parser, performer, host, result, last, steps, ref, fed, wire>>

NextPty ==
    \/ AddTab
    \/ ChildExits
    \/ ReadFromTabPty
    \/ ReadFromTabPtyEnds
    \/ RunForever

SpecPty == InitMux /\ [][NextPty]_vars

(* the chunks 1, 2, .. n in the order read *)
ChunksRead(n) == [i \in 1 .. n |-> i]

QueuedFor(m, tab_id, kind) ==
    {i \in 1 .. Len(m.queue) : m.queue[i].tab_id = tab_id /\ m.queue[i].k = kind}

(* the chunks of the tab handed to advance_bytes are the first ones read,  *)
(* in the order read, each once; a chunk read is applied, or its closure   *)
(* is still in the channel behind those applied                           *)
AppliedInOrder(m, tab_id) ==
    /\ Len(m.applied[tab_id]) <= m.readers[tab_id].read
    /\ m.applied[tab_id] = ChunksRead(Len(m.applied[tab_id]))

(* the closure that removes the tab has run only after the closure of      *)
(* every chunk read                                                        *)
RemovedAfterChunks(m, tab_id) ==
    m.removed[tab_id]
       => /\ m.readers[tab_id].done
          /\ QueuedFor(m, tab_id, "advance_bytes") = {}

(* the chunks of the tab whose closure found no tab, or is still in the    *)
(* channel when the tab has left the mux                                   *)
LostChunks(m, tab_id) ==
    m.lost[tab_id]
       \cup (IF tab_id \in m.tabs THEN {}
             ELSE {m.queue[i].data : i \in QueuedFor(m, tab_id, "advance_bytes")})

(* C35: for each tab, the chunks read from its pty are applied to the tab  *)
(* by closures run on the executor in the order they were read, each at    *)
(* most once; the closure that removes the tab runs only after the closure *)
(* of every chunk read before the end of file; no chunk read is lost.      *)
C35_PtyOutputInOrder ==
    \A tab_id \in TabIds :
        /\ AppliedInOrder(mux, tab_id)
        /\ RemovedAfterChunks(mux, tab_id)
        /\ LostChunks(mux, tab_id) = {}

(* the order and the removal hold as claimed; a chunk is lost only for a   *)
(* tab that is_dead and was pruned by the removal of another tab           *)
C35_LostOnlyWhenPruned ==
    \A tab_id \in TabIds :
        /\ \A i \in 1 .. Len(mux.applied[tab_id]), j \in 1 .. Len(mux.applied[tab_id]) :
              i < j => mux.applied[tab_id][i] < mux.applied[tab_id][j]
        /\ \A i \in 1 .. Len(mux.applied[tab_id]) :
              mux.applied[tab_id][i] \in 1 .. mux.readers[tab_id].read
        /\ RemovedAfterChunks(mux, tab_id)
        /\ LostChunks(mux, tab_id) /= {}
              => mux.dead[tab_id] /\ \E other \in TabIds \ {tab_id} : mux.removed[other]


----------------------------------------------------------------------------
(* Texts of up to three chunks pasted into a tab while its reader, and the *)
(* reader of another tab, reach the end of their ptys.                     *)

PasteTexts ==
    {<<[n |-> 1024, w |-> 1]>>, <<[n |-> 1025, w |-> 1]>>, <<[n |-> 2049, w |-> 1]>>,
     <<[n |-> 600, w |-> 2]>>,
     <<[n |-> 1023, w |-> 1], [n |-> 1, w |-> 2], [n |-> 8, w |-> 1]>>,
     <<[n |-> 2047, w |-> 1], [n |-> 1, w |-> 3]>>}

(* the owner thread pastes a text into a tab it got from the mux *)
TricklePaste ==
    /\ TheMux
    /\ \A t \in TabIds : mux.sent[t] = <<>>
    /\ \E tab_id \in mux.tabs, text \in PasteTexts :
          /\ mux' = trickle_paste(mux, tab_id, text)
          /\ last' = [text |-> text, k |-> "TricklePaste", tab_id |-> tab_id]
    /\ UNCHANGED <<state, parser, performer, host, result, steps, ref, fed, wire>>

NextPaste ==
    \/ AddTab
    \/ TricklePaste
    \/ ReadFromTabPty
    \/ ReadFromTabPtyEnds
    \/ RunForever

SpecPaste == InitMux /\ [][NextPaste]_vars

(* the slices follow one another from byte 0 on and none is longer than a  *)
(* chunk                                                                   *)
ConsecutiveChunks(slices) ==
    /\ slices /= <<>> => slices[1].start = 0
    /\ \A i \in 1 .. Len(slices) :
          /\ slices[i].end - slices[i].start <= PASTE_CHUNK_SIZE
          /\ slices[i].start < slices[i].end
          /\ i > 1 => slices[i].start = slices[i - 1].end

(* the text pasted last, if any *)
Pasted == IF last.k = "TricklePaste" THEN Some(last) ELSE None

(* the slices handed to send_paste so far cover the text of the paste p up *)
(* to a chunk boundary; once no closure of the paste is left in the        *)
(* channel they cover all of it, and a closure left there will be run      *)
DeliversInOrder(m, p) ==
    /\ ~m.fault
    /\ ConsecutiveChunks(m.sent[p.tab_id])
    /\ QueuedFor(m, p.tab_id, "paste") /= {} => m.running
    /\ QueuedFor(m, p.tab_id, "paste") = {}
          => /\ m.sent[p.tab_id] /= <<>>
             /\ m.sent[p.tab_id][Len(m.sent[p.tab_id])].end = text_len(p.text)

(* C36: for a text longer than 1024 bytes, trickle_paste hands the text to *)
(* send_paste as consecutive chunks of at most 1024 bytes, the first at    *)
(* once and each later one in its own executor task, whose concatenation   *)
(* in delivery order is the text, no byte twice or skipped, and the chain  *)
(* of tasks ends after the last chunk, under any interleaving with other   *)
(* executor tasks, those that remove the tab included.                     *)
C36_TricklePasteDelivers ==
    (IsSome(Pasted) /\ text_len(Unwrap(Pasted).text) > PASTE_CHUNK_SIZE)
        => DeliversInOrder(mux, Unwrap(Pasted))

(* every multiple of the chunk size inside the text is a char boundary *)
ChunksOnBoundaries(text) ==
    \A k \in 1 .. 3 :
        k * PASTE_CHUNK_SIZE < text_len(text) => is_char_boundary(text, k * PASTE_CHUNK_SIZE)

(* the same while the tab has not been removed, for the texts whose chunks *)
(* end on character boundaries                                             *)
C36_WhileTabStays ==
    (/\ IsSome(Pasted)
     /\ text_len(Unwrap(Pasted).text) > PASTE_CHUNK_SIZE
     /\ ChunksOnBoundaries(Unwrap(Pasted).text)
     /\ Unwrap(Pasted).tab_id \in mux.tabs)
        => DeliversInOrder(mux, Unwrap(Pasted))


(* the claim for the texts whose chunks end on character boundaries,      *)
(* whether the tab stays or not                                            *)
C36_OnCharBoundaries ==
    (/\ IsSome(Pasted)
     /\ text_len(Unwrap(Pasted).text) > PASTE_CHUNK_SIZE
     /\ ChunksOnBoundaries(Unwrap(Pasted).text))
        => DeliversInOrder(mux, Unwrap(Pasted))

====
